---- MODULE Spec2Model ----
(***************************************************************************)
(* A model of the kinematics and spin-algebra engine of tf-pwa:            *)
(*   - tf_pwa/cal_angle.py: cal_angle_from_momentum, infer_momentum,       *)
(*     add_mass, cal_helicity_angle and cal_angle_from_particle, stepped   *)
(*     through their loops (specification Spec), and cal_helicity_angle    *)
(*     on its own (SpecHelicity, FairHelicity for termination);            *)
(*   - tf_pwa/cov_ten_ir.py: the spin helpers _half2, _size, _srange and   *)
(*     CGlrs, applied to drawn spin labels (specification SpecSpin);       *)
(*     sequences of requests for Clebsch-Gordan tensors (SpecCG);          *)
(*     LorentzInvSC_m_zero (SpecMassless); DirectSum and the barred        *)
(*     variants (SpecDirectSum);                                           *)
(*   - tf_pwa/dfun.py: the tables memoized by functools.lru_cache, under   *)
(*     concurrent callers (SpecMemo) and under one caller (SpecSequential),*)
(*     and small_d_weight, small_d_matrix, D_matrix_conj (SpecDfun);       *)
(*   - Getp of cal_angle.py and data.py (SpecGetp), and the base z axis of *)
(*     cal_angle_from_particle (SpecBaseZ).                                *)
(*   - get_relative_momentum (SpecRelative), add_weight (SpecWeight),      *)
(*     get_keys and get_key_content (SpecPath) of cal_angle.py;            *)
(*     get_D_matrix_for_angle of dfun.py on one angle record (SpecRecord); *)
(*     the shapes of UU_m_sigma, Pmm1m2, LorentzBoostSC and                *)
(*     LorentzRotationSC of cov_ten_ir.py (SpecShape); flatten_dict_data   *)
(*     (SpecFlatten) and load_dat_file (SpecLoad) of data.py.              *)
(*                                                                         *)
(* Tensors of floating point numbers are modelled by what the claims       *)
(* read of them.  A four-momentum batch is one integer (one component of   *)
(* one event: every operation on momenta in the modelled code is           *)
(* element-wise).  Angles, axes and group elements are symbolic terms that *)
(* record the function that produced them and the particles whose          *)
(* momenta went into it.                                                   *)
(***************************************************************************)
EXTENDS Integers, Sequences, FiniteSets, TLC

VARIABLES
    decay_chain_struct, \* the chains cal_angle_* iterate over (decs or its topology structure)
    p_in,               \* the caller's momentum mapping (argument p)
    r_boost,            \* argument r_boost
    pc,                 \* position in cal_angle_from_momentum
    data_p,             \* {particle: {"p": ..., "m": ...}}
    ci,                 \* index of the chain the current loop is at
    set_decay,          \* cal_helicity_angle: decays of the current pass
    idx,                \* cal_helicity_angle: position in set_decay
    extra_decay,        \* cal_helicity_angle: decays postponed to the next pass
    set_x,              \* cal_helicity_angle: resolved x axes
    set_z,              \* cal_helicity_angle: resolved z axes
    r_matrix,           \* cal_helicity_angle: accumulated operators
    ret,                \* cal_helicity_angle: the angle record being built
    decay_data,         \* cal_angle_from_particle: chain -> result of cal_helicity_angle
    ref_x,              \* cal_angle_from_particle: its set_x, particle -> (chain, decay)
    ref_matrix,         \* cal_angle_from_particle: particle -> reference chain
    wlog,               \* history: keys assigned by the current cal_helicity_angle run, in order
    order,              \* history: decays processed by the current run, in order
    passes,             \* history: length of set_decay at the start of each pass of the run
    spin_in,            \* spin algebra: the drawn arguments
    spin_out,           \* spin algebra: the outcome of the call
    call,               \* the function applied and its arguments (Wigner engine, Getp, ...)
    result,             \* what the applied function returned or raised
    memo,               \* functools.lru_cache: the entries, least recently used first
    thread,             \* the callers of a memoized function: position, key, value
    evals,              \* history: the keys whose value was computed, in order
    angle,              \* the angle record handed to get_D_matrix_for_angle
    requests            \* history: the requests made to get_D_matrix_for_angle

vars == << decay_chain_struct, p_in, r_boost, pc, data_p, ci, set_decay, idx,
           extra_decay, set_x, set_z, r_matrix, ret, decay_data, ref_x,
           ref_matrix, wlog, order, passes, spin_in, spin_out,
           call, result, memo, thread, evals, angle, requests >>

angleVars == << decay_chain_struct, p_in, r_boost, pc, data_p, ci, set_decay, idx,
                extra_decay, set_x, set_z, r_matrix, ret, decay_data, ref_x,
                ref_matrix, wlog, order, passes >>

spinVars == << spin_in, spin_out >>

callVars == << call, result >>

memoVars == << memo, thread, evals, angle, requests >>

----------------------------------------------------------------------------
(* Bounds *)

\* chains per decay group
MaxChains == 2

\* decays per chain
MaxDecays == 3

\* spin arguments are drawn in quarters, 0 .. MaxQuarter/4
MaxQuarter == 6

----------------------------------------------------------------------------
(* Generic helpers *)

EmptyMap == << >>

Range(s) == { s[k] : k \in DOMAIN s }

Put(f, k, v) == (k :> v) @@ f

RECURSIVE SumOver(_, _)
SumOver(S, f) ==
    IF S = {} THEN 0
    ELSE LET x == CHOOSE y \in S : TRUE IN f[x] + SumOver(S \ {x}, f)

Perms(S) ==
    { q \in [1..Cardinality(S) -> S] :
        \A a, b \in 1..Cardinality(S) : a # b => q[a] # q[b] }

----------------------------------------------------------------------------
(* Topology: Particle, Decay, DecayChain, DecayGroup *)

BaseDecay(core, outs) == [core |-> core, outs |-> outs]

Top == "A"

FinalParticles == {"B", "C", "D", "E"}

\* The decays the chains are built from: two- and three-body vertices over
\* three final-state particles (B, C, D) and over four (B, C, D, E).  R is a
\* resonance with two decay modes.
DecayCatalogue ==
    { BaseDecay("A", <<"R", "D">>), BaseDecay("R", <<"B", "C">>),
      BaseDecay("A", <<"R", "C">>), BaseDecay("R", <<"B", "D">>),
      BaseDecay("A", <<"S", "C">>), BaseDecay("S", <<"B", "D">>),
      BaseDecay("A", <<"B", "C", "D">>),
      BaseDecay("A", <<"U", "E">>), BaseDecay("U", <<"V", "D">>),
      BaseDecay("V", <<"B", "C">>), BaseDecay("U", <<"B", "C", "D">>),
      BaseDecay("A", <<"V", "W">>), BaseDecay("W", <<"D", "E">>) }

Cores(ds) == { d.core : d \in ds }

Emitted(ds) == UNION { Range(d.outs) : d \in ds }

\* DecayChain.outs: the final-state particles
ChainOuts(ds) == Emitted(ds) \ Cores(ds)

RECURSIVE Resolved(_, _)
Resolved(ds, known) ==
    LET new == UNION { Range(d.outs) : d \in { e \in ds : e.core \in known } }
    IN IF new \subseteq known THEN known ELSE Resolved(ds, known \cup new)

\* a tree rooted at Top: every non-leaf is the core of exactly one decay,
\* every particle but the top is emitted exactly once, all reached from Top
IsTree(ds) ==
    /\ ds # {}
    /\ \A d, e \in ds : d.core = e.core => d = e
    /\ \A d, e \in ds : d # e => Range(d.outs) \cap Range(e.outs) = {}
    /\ \A d \in ds : Cardinality(Range(d.outs)) = Len(d.outs)
    /\ Top \in Cores(ds)
    /\ Top \notin Emitted(ds)
    /\ Cores(ds) \subseteq Resolved(ds, {Top})
    /\ ChainOuts(ds) \subseteq FinalParticles

TreeSets ==
    { ds \in SUBSET DecayCatalogue : Cardinality(ds) <= MaxDecays /\ IsTree(ds) }

\* a DecayChain lists the decays of a tree in any order
DecayChains == UNION { Perms(ds) : ds \in TreeSets }

\* a DecayGroup: chains with the same top and the same outs
IsGroup(g) ==
    /\ \A a, b \in DOMAIN g : ChainOuts(Range(g[a])) = ChainOuts(Range(g[b]))
    /\ \A a, b \in DOMAIN g : a # b => Range(g[a]) # Range(g[b])

DecayGroups ==
    UNION { { g \in [1..n -> DecayChains] : IsGroup(g) } : n \in 1..MaxChains }

\* DecayGroup.outs
GroupOuts(g) == ChainOuts(Range(g[1]))

\* the decay of chain ch that emits particle i
Emitter(ch, i) == CHOOSE d \in Range(ch) : i \in Range(d.outs)

----------------------------------------------------------------------------
(* Momenta *)

\* Linearly independent momenta: two sums of final-state momenta are equal
\* exactly when they sum the same particles.
GenericP(i) ==
    CASE i = "B" -> 1 [] i = "C" -> 2 [] i = "D" -> 4 [] i = "E" -> 8

MomentumMappings == { [i \in K |-> GenericP(i)] : K \in SUBSET FinalParticles }

\* cal_angle_from_momentum, line 346: p = {i: p[i] for i in decs.outs};
\* a missing key raises KeyError
SelectOutsLenient(p, outs) ==
    [err |-> FALSE, p |-> [i \in outs |-> IF i \in DOMAIN p THEN p[i] ELSE 0]]

SelectOuts(p, outs) ==
    IF outs \subseteq DOMAIN p
    THEN [err |-> FALSE, p |-> [i \in outs |-> p[i]]]
    ELSE [err |-> TRUE, p |-> EmptyMap]

\* struct_momentum(p, center_mass=False): {outs: momentum} => {outs: {p: momentum}}
struct_momentum(p) == [i \in DOMAIN p |-> [p |-> p[i], has_m |-> FALSE]]

\* DecayChain.sorted_table(): particle -> the final-state particles below it
RECURSIVE Below(_, _)
Below(ds, i) ==
    IF i \notin Cores(ds) THEN {i}
    ELSE LET d == CHOOSE e \in ds : e.core = i
         IN UNION { Below(ds, d.outs[k]) : k \in DOMAIN d.outs }

sorted_table(ch) ==
    [i \in Cores(Range(ch)) \cup Emitted(Range(ch)) |-> Below(Range(ch), i)]

\* the loop body without the test of line 89: every particle of the table is
\* given the sum of the momenta of st[i]
InferEntryAgain(data, st, i) ==
    IF i \in DOMAIN st
    THEN [p |-> SumOver(st[i], [j \in st[i] |-> data[j].p]), has_m |-> FALSE]
    ELSE data[i]

\* infer_momentum, lines 88-94: a particle already in data is skipped
\* (line 89), any other gets the sum of the momenta of st[i]
InferEntry(data, st, i) ==
    IF i \in DOMAIN data
    THEN data[i]
    ELSE [p |-> SumOver(st[i], [j \in st[i] |-> data[j].p]), has_m |-> FALSE]

infer_momentum(data, ch) ==
    LET st == sorted_table(ch)
    IN [i \in DOMAIN data \cup DOMAIN st |-> InferEntry(data, st, i)]

\* add_mass: every particle of data gets "m"
add_mass(data) == [i \in DOMAIN data |-> [p |-> data[i].p, has_m |-> TRUE]]

----------------------------------------------------------------------------
(* cal_helicity_angle *)

base_x == <<"base_x">>

base_z == <<"base_z">>

\* LorentzVector.rest_vector(data[i.core]["p"], data[j]["p"]), lines 134-141
rest_p(i, j) == <<"rest_p", i.core, j>>

\* r = Bp * Rotation_y(ang["beta"]) * Rotation_z(ang["alpha"]), with
\* Bp = Boost_z_from_p(p_rest): the factor records whose rest-frame momentum
\* and whose angles it is built from
RFactor(p_rest, ang) == << [Bp |-> p_rest, ang |-> ang] >>

\* lines 164-167 and 179-182: r * r_matrix[i.core] when the core has one
Accumulate(r, core, rm) == IF core \in DOMAIN rm THEN r \o rm[core] ELSE r

\* line 150: the frame of the core is resolved
FrameKnown(i, sx) == i.core \in DOMAIN sx

\* line 184: extra_decay.append(i)
PostponeDrop(extra, i) == extra

Postpone(extra, i) == Append(extra, i)

\* line 156: EulerAngle.angle_zx_z_getx(set_z[i.core], set_x[i.core], z2)
\* for the outgoing particle j
angle_zx_z_getx(i, j) ==
    [ang |-> <<"angle_zx_z_getx", i.core, j>>, x |-> <<"x_zx_z_getx", i.core, j>>]

\* line 155: LorentzVector.vect(p_rest)
vect(i, j) == <<"vect", i.core, j>>

\* the keys one pass over i.outs assigns, in order: ret[i][j], r_matrix[j]
AssignedKeys(i) ==
    [k \in 1..(2 * Len(i.outs)) |->
        IF k % 2 = 1 THEN <<"ret", i.core, i.outs[(k + 1) \div 2]>>
                     ELSE <<"r_matrix", i.outs[k \div 2]>>]

\* lines 152-167: the loop over i.outs.  The entries of different j do not
\* read each other (the core is none of its outs); the local variable ang
\* outlives the loop with the value of the last j
OutsLoop(i, st) ==
    [ret_i |-> [j \in Range(i.outs) |->
                   [ang |-> angle_zx_z_getx(i, j).ang, x |-> angle_zx_z_getx(i, j).x,
                    z |-> vect(i, j), aligned_angle |-> << >>]],
     ret_ang |-> st.ret_ang,
     set_x |-> [j \in Range(i.outs) |-> angle_zx_z_getx(i, j).x] @@ st.set_x,
     set_z |-> [j \in Range(i.outs) |-> vect(i, j)] @@ st.set_z,
     r_matrix |-> [j \in Range(i.outs) |->
                      Accumulate(RFactor(rest_p(i, j), angle_zx_z_getx(i, j).ang),
                                 i.core, st.r_matrix)] @@ st.r_matrix,
     wlog |-> st.wlog \o AssignedKeys(i),
     ang |-> angle_zx_z_getx(i, i.outs[Len(i.outs)]).ang]

\* lines 168-182: the three-body branch; it assigns ret[i]["ang"], and
\* ret[i][j] and r_matrix[j] again, r from the ang the loop above left behind
ThreeBody(i, st) ==
    IF Len(i.outs) = 3
    THEN [ret_i |-> [j \in Range(i.outs) |->
                        [ang |-> << >>, x |-> <<"x_zx_zzz_getx", i.core, j>>,
                         z |-> vect(i, j), aligned_angle |-> << >>]],
          ret_ang |-> <<"angle_zx_zzz_getx", i.core>>,
          set_x |-> st.set_x,
          set_z |-> st.set_z,
          r_matrix |-> [j \in Range(i.outs) |->
                           Accumulate(RFactor(rest_p(i, j), st.ang),
                                      i.core, st.r_matrix)] @@ st.r_matrix,
          wlog |-> st.wlog \o AssignedKeys(i),
          ang |-> st.ang]
    ELSE st

\* lines 151-182: one decay whose core frame is resolved
ProcessDecay(i, sx, sz, rm, wl) ==
    ThreeBody(i, OutsLoop(i,
        [ret_i |-> EmptyMap, ret_ang |-> << >>, set_x |-> sx, set_z |-> sz,
         r_matrix |-> rm, wlog |-> wl, ang |-> << >>]))

----------------------------------------------------------------------------
(* cal_angle_from_particle: reference chains and aligned angles *)

\* line 225: the first chain that emits i from the top becomes its reference
TakeReferenceAlways(i, sx, outs) == i \in outs

TakeReference(i, sx, outs) == (i \notin DOMAIN sx) /\ (i \in outs)

\* lines 224-227
RECURSIVE RefOuts(_, _, _, _, _)
RefOuts(c, decay, m, sx, outs) ==
    IF m > Len(decay.outs) THEN sx
    ELSE LET i == decay.outs[m]
         IN RefOuts(c, decay, m + 1,
                    IF TakeReference(i, sx, outs)
                    THEN Put(sx, i, [chain |-> c, decay |-> decay])
                    ELSE sx,
                    outs)

\* lines 222-223
RECURSIVE RefDecays(_, _, _, _, _)
RefDecays(g, c, k, sx, outs) ==
    IF k > Len(g[c]) THEN sx
    ELSE RefDecays(g, c, k + 1,
                   IF g[c][k].core = Top THEN RefOuts(c, g[c][k], 1, sx, outs) ELSE sx,
                   outs)

\* line 221
RECURSIVE RefChains(_, _, _, _)
RefChains(g, c, sx, outs) ==
    IF c > Len(g) THEN sx
    ELSE RefChains(g, c + 1, RefDecays(g, c, 1, sx, outs), outs)

\* lines 231-236: the decay of the first chain that emits i (the last match)
RECURSIVE FirstChainDecay(_, _, _, _)
FirstChainDecay(ch, k, i, found) ==
    IF k > Len(ch) THEN found
    ELSE FirstChainDecay(ch, k + 1, i,
                         IF i \in Range(ch[k].outs) THEN <<ch[k]>> ELSE found)

\* lines 229-236
RECURSIVE RefFallback(_, _, _)
RefFallback(g, sx, todo) ==
    IF todo = {} THEN sx
    ELSE LET i == CHOOSE k \in todo : TRUE
             found == FirstChainDecay(g[1], 1, i, << >>)
         IN RefFallback(g,
                        IF i \notin DOMAIN sx /\ found # << >>
                        THEN Put(sx, i, [chain |-> 1, decay |-> found[1]])
                        ELSE sx,
                        todo \ {i})

\* lines 218-236
ChooseReference(g) ==
    RefFallback(g, RefChains(g, 1, EmptyMap, GroupOuts(g)), GroupOuts(g))

\* line 241
AlignNeededFirst(c, i, outs, rx) == i \in outs /\ c # 1

AlignNeeded(c, i, outs, rx) == i \in outs /\ c # rx[i].chain

\* lines 244-254: the angle between the frame of i in chain c and in its
\* reference chain, from the accumulated operators or from the axes
AlignedAngle(c, i, rx, rm, rb) ==
    IF rb THEN <<"get_euler_angle", rm[i], c>>
          ELSE <<"angle_zx_zx", rx[i].chain, c>>

\* lines 237-256
AlignAll(dd, g, rx, rm, rb) ==
    [c \in DOMAIN dd |->
        [dd[c] EXCEPT !.ret =
            [d \in DOMAIN dd[c].ret |->
                [dd[c].ret[d] EXCEPT !.outs =
                    [i \in DOMAIN dd[c].ret[d].outs |->
                        IF AlignNeeded(c, i, GroupOuts(g), rx)
                        THEN [dd[c].ret[d].outs[i] EXCEPT
                                !.aligned_angle = AlignedAngle(c, i, rx, rm, rb)]
                        ELSE dd[c].ret[d].outs[i]]]]]]

----------------------------------------------------------------------------
(* The steps of cal_angle_from_momentum *)

Idle == << >>

SpinIdle == [op |-> "none", l |-> 0, r |-> 0, s |-> 0]

\* no function is being applied
CallIdle ==
    /\ call = Idle
    /\ result = Idle

\* no memoized function has been requested
MemoIdle ==
    /\ memo = << >>
    /\ thread = << >>
    /\ evals = << >>
    /\ angle = << >>
    /\ requests = << >>

Init ==
    /\ decay_chain_struct \in DecayGroups
    /\ p_in \in MomentumMappings
    /\ r_boost \in BOOLEAN
    /\ pc = "start"
    /\ data_p = EmptyMap
    /\ ci = 1
    /\ set_decay = << >>
    /\ idx = 1
    /\ extra_decay = << >>
    /\ set_x = EmptyMap
    /\ set_z = EmptyMap
    /\ r_matrix = EmptyMap
    /\ ret = EmptyMap
    /\ decay_data = EmptyMap
    /\ ref_x = EmptyMap
    /\ ref_matrix = EmptyMap
    /\ wlog = << >>
    /\ order = << >>
    /\ passes = << >>
    /\ spin_in = SpinIdle
    /\ spin_out = Idle
    /\ CallIdle
    /\ MemoIdle

\* line 346, and line 347 when no key is missing
SelectMomentum ==
    /\ pc = "start"
    /\ LET sel == SelectOuts(p_in, GroupOuts(decay_chain_struct))
       IN IF sel.err
          THEN pc' = "error" /\ data_p' = data_p
          ELSE pc' = "infer" /\ data_p' = struct_momentum(sel.p)
    /\ UNCHANGED << decay_chain_struct, p_in, r_boost, ci, set_decay, idx, extra_decay,
                    set_x, set_z, r_matrix, ret, decay_data, ref_x, ref_matrix,
                    wlog, order, passes, spin_in, spin_out, callVars, memoVars >>

\* lines 352-356: one chain of the loop
InferMomentum ==
    /\ pc = "infer"
    /\ ci <= Len(decay_chain_struct)
    /\ data_p' = add_mass(infer_momentum(data_p, decay_chain_struct[ci]))
    /\ ci' = ci + 1
    /\ UNCHANGED << decay_chain_struct, p_in, r_boost, pc, set_decay, idx, extra_decay,
                    set_x, set_z, r_matrix, ret, decay_data, ref_x, ref_matrix,
                    wlog, order, passes, spin_in, spin_out, callVars, memoVars >>

\* line 357: cal_angle_from_particle is entered
EnterAngle ==
    /\ pc = "infer"
    /\ ci > Len(decay_chain_struct)
    /\ pc' = "helicity_begin"
    /\ ci' = 1
    /\ UNCHANGED << decay_chain_struct, p_in, r_boost, data_p, set_decay, idx, extra_decay,
                    set_x, set_z, r_matrix, ret, decay_data, ref_x, ref_matrix,
                    wlog, order, passes, spin_in, spin_out, callVars, memoVars >>

\* lines 213-214 and 131-146: cal_helicity_angle is called for chain ci
BeginHelicity ==
    /\ pc = "helicity_begin"
    /\ ci <= Len(decay_chain_struct)
    /\ pc' = "helicity_loop"
    /\ set_x' = (Top :> base_x)
    /\ set_z' = (Top :> base_z)
    /\ r_matrix' = EmptyMap
    /\ ret' = EmptyMap
    /\ set_decay' = decay_chain_struct[ci]
    /\ idx' = 1
    /\ extra_decay' = << >>
    /\ wlog' = << >>
    /\ order' = << >>
    /\ passes' = << Len(decay_chain_struct[ci]) >>
    /\ UNCHANGED << decay_chain_struct, p_in, r_boost, data_p, ci, decay_data, ref_x,
                    ref_matrix, spin_in, spin_out, callVars, memoVars >>

\* lines 149-184: one decay of the current pass
HelicityDecay ==
    /\ pc = "helicity_loop"
    /\ idx <= Len(set_decay)
    /\ LET i == set_decay[idx]
       IN IF FrameKnown(i, set_x)
          THEN LET st == ProcessDecay(i, set_x, set_z, r_matrix, wlog)
               IN /\ ret' = Put(ret, i, [outs |-> st.ret_i, ang |-> st.ret_ang])
                  /\ set_x' = st.set_x
                  /\ set_z' = st.set_z
                  /\ r_matrix' = st.r_matrix
                  /\ wlog' = st.wlog
                  /\ order' = Append(order, i)
                  /\ extra_decay' = extra_decay
          ELSE /\ extra_decay' = Postpone(extra_decay, i)
               /\ UNCHANGED << ret, set_x, set_z, r_matrix, wlog, order >>
    /\ idx' = idx + 1
    /\ UNCHANGED << decay_chain_struct, p_in, r_boost, pc, data_p, ci, set_decay,
                    decay_data, ref_x, ref_matrix, passes, spin_in, spin_out, callVars, memoVars >>

\* lines 147-148 and 185: the pass is over and decays are left
NextPass ==
    /\ pc = "helicity_loop"
    /\ idx > Len(set_decay)
    /\ extra_decay # << >>
    /\ set_decay' = extra_decay
    /\ extra_decay' = << >>
    /\ idx' = 1
    /\ passes' = Append(passes, Len(extra_decay))
    /\ UNCHANGED << decay_chain_struct, p_in, r_boost, pc, data_p, ci, set_x, set_z,
                    r_matrix, ret, decay_data, ref_x, ref_matrix, wlog, order,
                    spin_in, spin_out, callVars, memoVars >>

\* lines 185-187 and 215: no decay is left, the result is stored
EndHelicity ==
    /\ pc = "helicity_loop"
    /\ idx > Len(set_decay)
    /\ extra_decay = << >>
    /\ decay_data' = Put(decay_data, ci, [ret |-> ret, r_matrix |-> r_matrix])
    /\ set_decay' = << >>
    /\ idx' = 1
    /\ ci' = ci + 1
    /\ pc' = "helicity_begin"
    /\ UNCHANGED << decay_chain_struct, p_in, r_boost, data_p, extra_decay, set_x, set_z,
                    r_matrix, ret, ref_x, ref_matrix, wlog, order, passes,
                    spin_in, spin_out, callVars, memoVars >>

\* lines 217-236
Reference ==
    /\ pc = "helicity_begin"
    /\ ci > Len(decay_chain_struct)
    /\ LET sx == ChooseReference(decay_chain_struct)
       IN /\ ref_x' = sx
          /\ ref_matrix' = [i \in DOMAIN sx |-> sx[i].chain]
    /\ pc' = "align"
    /\ UNCHANGED << decay_chain_struct, p_in, r_boost, data_p, ci, set_decay, idx,
                    extra_decay, set_x, set_z, r_matrix, ret, decay_data, wlog, order,
                    passes, spin_in, spin_out, callVars, memoVars >>

\* lines 237-257 and 358-359
Align ==
    /\ pc = "align"
    /\ decay_data' = AlignAll(decay_data, decay_chain_struct, ref_x, ref_matrix, r_boost)
    /\ pc' = "done"
    /\ UNCHANGED << decay_chain_struct, p_in, r_boost, data_p, ci, set_decay, idx,
                    extra_decay, set_x, set_z, r_matrix, ret, ref_x, ref_matrix, wlog,
                    order, passes, spin_in, spin_out, callVars, memoVars >>

Next ==
    \/ SelectMomentum
    \/ InferMomentum
    \/ EnterAngle
    \/ BeginHelicity
    \/ HelicityDecay
    \/ NextPass
    \/ EndHelicity
    \/ Reference
    \/ Align

Spec == Init /\ [][Next]_vars

\* cal_helicity_angle called on its own, for one chain whose momenta are
\* inferred from generic momenta of its final-state particles
InitHelicity ==
    /\ \E ch \in DecayChains :
          /\ decay_chain_struct = << ch >>
          /\ data_p = add_mass(infer_momentum(
                         struct_momentum([i \in ChainOuts(Range(ch)) |-> GenericP(i)]), ch))
    /\ p_in = EmptyMap
    /\ r_boost = FALSE
    /\ pc = "helicity_begin"
    /\ ci = 1
    /\ set_decay = << >>
    /\ idx = 1
    /\ extra_decay = << >>
    /\ set_x = EmptyMap
    /\ set_z = EmptyMap
    /\ r_matrix = EmptyMap
    /\ ret = EmptyMap
    /\ decay_data = EmptyMap
    /\ ref_x = EmptyMap
    /\ ref_matrix = EmptyMap
    /\ wlog = << >>
    /\ order = << >>
    /\ passes = << >>
    /\ spin_in = SpinIdle
    /\ spin_out = Idle
    /\ CallIdle
    /\ MemoIdle

NextHelicity ==
    \/ BeginHelicity
    \/ HelicityDecay
    \/ NextPass
    \/ EndHelicity

SpecHelicity == InitHelicity /\ [][NextHelicity]_vars

\* the call is synchronous: a step that can be taken is taken
FairHelicity == SpecHelicity /\ WF_vars(NextHelicity)

----------------------------------------------------------------------------
(* cov_ten_ir.py: spin labels.  A spin argument s is drawn as a number of   *)
(* quarters q (s = q/4), so that values that are no multiple of 1/2 occur;  *)
(* results of _half2 count halves.                                          *)

AbsInt(n) == IF n < 0 THEN 0 - n ELSE n

\* Python round() of n/2: to the nearest integer, a tie to the even one
RoundHalfEven(n) ==
    LET a == AbsInt(n)
        f == a \div 2
        v == IF a % 2 = 0 THEN f ELSE IF f % 2 = 0 THEN f ELSE f + 1
    IN IF n < 0 THEN 0 - v ELSE v

\* _half2(s) = int(round(s * 2)), s = q/4
_half2(q) == RoundHalfEven(q)

\* _size(s) = _half2(s) + 1
_size(q) == _half2(q) + 1

\* _srange(s) yields i - s for i in range(_size(s)); in quarters
_srange(q) == [i \in 1.._size(q) |-> 4 * (i - 1) - q]

\* _S(s) = S(_half2(s)) / 2, in halves
_S(q) == _half2(q)

\* sympy's CG(j1, m1, j2, m2, j3, m3).doit(), arguments in halves: 0 by the
\* selection rules (m1 + m2 # m3, the triangle, |m| > j), a coefficient
\* otherwise; it raises for no half-integer arguments
CG(j1, m1, j2, m2, j3, m3) ==
    IF \/ m1 + m2 # m3
       \/ j1 + j2 - j3 < 0
       \/ j1 - j2 + j3 < 0
       \/ j2 + j3 - j1 < 0
       \/ AbsInt(m1) > j1 \/ AbsInt(m2) > j2 \/ AbsInt(m3) > j3
    THEN "zero" ELSE "coefficient"

\* CGlrs(l, r, s): the tensor, by its shape and the indices of the entries
\* the selection rules leave (before the final reversal of the axes)
CGlrs(l, r, s) ==
    [status |-> "ok",
     shape |-> << _size(l), _size(r), _size(s) >>,
     support |->
        { t \in (1.._size(l)) \X (1.._size(r)) \X (1.._size(s)) :
            CG(_S(l), _S(_srange(l)[t[1]]), _S(r), _S(_srange(r)[t[2]]),
               _S(s), _S(_srange(s)[t[3]])) = "coefficient" }]

Quarters == 0..MaxQuarter

IsHalfInteger(q) == q % 2 = 0

InitSpin ==
    /\ spin_in \in [op : {"none"}, l : Quarters, r : Quarters, s : Quarters]
    /\ spin_out = Idle
    /\ CallIdle
    /\ MemoIdle
    /\ decay_chain_struct = << >>
    /\ p_in = EmptyMap
    /\ r_boost = FALSE
    /\ pc = "idle"
    /\ data_p = EmptyMap
    /\ ci = 1
    /\ set_decay = << >>
    /\ idx = 1
    /\ extra_decay = << >>
    /\ set_x = EmptyMap
    /\ set_z = EmptyMap
    /\ r_matrix = EmptyMap
    /\ ret = EmptyMap
    /\ decay_data = EmptyMap
    /\ ref_x = EmptyMap
    /\ ref_matrix = EmptyMap
    /\ wlog = << >>
    /\ order = << >>
    /\ passes = << >>

Call_half2 ==
    /\ spin_in.op = "none"
    /\ spin_in' = [spin_in EXCEPT !.op = "_half2"]
    /\ spin_out' = [status |-> "ok", value |-> _half2(spin_in.l)]
    /\ UNCHANGED << angleVars, callVars, memoVars >>

Call_size ==
    /\ spin_in.op = "none"
    /\ spin_in' = [spin_in EXCEPT !.op = "_size"]
    /\ spin_out' = [status |-> "ok", value |-> _size(spin_in.l)]
    /\ UNCHANGED << angleVars, callVars, memoVars >>

Call_srange ==
    /\ spin_in.op = "none"
    /\ spin_in' = [spin_in EXCEPT !.op = "_srange"]
    /\ spin_out' = [status |-> "ok", value |-> _srange(spin_in.l)]
    /\ UNCHANGED << angleVars, callVars, memoVars >>

CallCGlrs ==
    /\ spin_in.op = "none"
    /\ spin_in' = [spin_in EXCEPT !.op = "CGlrs"]
    /\ spin_out' = CGlrs(spin_in.l, spin_in.r, spin_in.s)
    /\ UNCHANGED << angleVars, callVars, memoVars >>

NextSpin ==
    \/ Call_half2
    \/ Call_size
    \/ Call_srange
    \/ CallCGlrs

SpecSpin == InitSpin /\ [][NextSpin]_vars

----------------------------------------------------------------------------
(* cov_ten_ir.py: requests for Clebsch-Gordan tensors.  Every run of the    *)
(* body of CGlrs evaluates the coefficients symbolically; evals records the *)
(* key of each run.  CGlrs carries no decorator and stores nothing.         *)

\* a request is made while fewer than MaxEvals evaluations have run
MaxEvals == 2

\* the spins requested, in quarters: 0 and 1/2
RequestSpins == {0, 2}

\* all other subsystems at rest
AngleIdle ==
    /\ decay_chain_struct = << >>
    /\ p_in = EmptyMap
    /\ r_boost = FALSE
    /\ pc = "idle"
    /\ data_p = EmptyMap
    /\ ci = 1
    /\ set_decay = << >>
    /\ idx = 1
    /\ extra_decay = << >>
    /\ set_x = EmptyMap
    /\ set_z = EmptyMap
    /\ r_matrix = EmptyMap
    /\ ret = EmptyMap
    /\ decay_data = EmptyMap
    /\ ref_x = EmptyMap
    /\ ref_matrix = EmptyMap
    /\ wlog = << >>
    /\ order = << >>
    /\ passes = << >>

SpinAtRest ==
    /\ spin_in = SpinIdle
    /\ spin_out = Idle

\* the runs of the body of CGlrs that CCGlrs makes, in order
CCGlrsRuns(l1, l2, r1, r2, l, r, s) == << <<l1, l2, l>>, <<r1, r2, r>>, <<l, r, s>> >>

\* CCGlrs: einsum "abc,def,cfg->abdeg" of the three tensors, by its shape
CCGlrs(l1, l2, r1, r2, l, r, s) ==
    [status |-> "ok",
     shape |-> << CGlrs(l1, l2, l).shape[1], CGlrs(l1, l2, l).shape[2],
                  CGlrs(r1, r2, r).shape[1], CGlrs(r1, r2, r).shape[2],
                  CGlrs(l, r, s).shape[3] >>]

\* u_m_sigma: CGlrs(l, r, s) reshaped to (-1, last axis)
u_m_sigma(l, r, s) ==
    [status |-> "ok",
     shape |-> << CGlrs(l, r, s).shape[1] * CGlrs(l, r, s).shape[2],
                  CGlrs(l, r, s).shape[3] >>]

InitCG ==
    /\ call = Idle
    /\ result = Idle
    /\ MemoIdle
    /\ SpinAtRest
    /\ AngleIdle

RequestCGlrs ==
    /\ Len(evals) < MaxEvals
    /\ \E l, r, s \in RequestSpins :
          /\ call' = [op |-> "CGlrs", key |-> <<l, r, s>>]
          /\ result' = CGlrs(l, r, s)
          /\ evals' = Append(evals, <<l, r, s>>)
    /\ UNCHANGED << angleVars, spinVars, memo, thread, angle, requests >>

Request_u_m_sigma ==
    /\ Len(evals) < MaxEvals
    /\ \E l, r, s \in RequestSpins :
          /\ call' = [op |-> "u_m_sigma", key |-> <<l, r, s>>]
          /\ result' = u_m_sigma(l, r, s)
          /\ evals' = Append(evals, <<l, r, s>>)
    /\ UNCHANGED << angleVars, spinVars, memo, thread, angle, requests >>

RequestCCGlrs ==
    /\ Len(evals) < MaxEvals
    /\ \E l1, l2, r1, r2, l, r, s \in RequestSpins :
          /\ call' = [op |-> "CCGlrs", key |-> <<l1, l2, r1, r2, l, r, s>>]
          /\ result' = CCGlrs(l1, l2, r1, r2, l, r, s)
          /\ evals' = evals \o CCGlrsRuns(l1, l2, r1, r2, l, r, s)
    /\ UNCHANGED << angleVars, spinVars, memo, thread, angle, requests >>

NextCG ==
    \/ RequestCGlrs
    \/ Request_u_m_sigma
    \/ RequestCCGlrs

SpecCG == InitCG /\ [][NextCG]_vars

----------------------------------------------------------------------------
(* dfun.py: the memoized tables.  small_d_weight and _tuple_delta_D_trans   *)
(* are wrapped by functools.lru_cache(): a call looks its key up, runs the  *)
(* wrapped function on a miss without holding the cache, then stores the    *)
(* result unless the key was stored meanwhile, evicting the least recently  *)
(* used entry of a full cache.  A value is the table of its key together    *)
(* with the run that built it (the identity of the array object).           *)

\* functools.lru_cache(): the default maxsize
maxsize == 128

\* concurrent callers
MaxThreads == 2

\* the encoded spins j requested by concurrent callers: 0 .. MaxLabel
MaxLabel == 0

\* sequential requests name the labels 0 .. MaxDistinct - 1
MaxDistinct == 130

MemoFunctions == {"small_d_weight", "_tuple_delta_D_trans"}

\* the argument tuples of a memoized function: (j,) for small_d_weight, and
\* (j, la, lb, lc) with la = (-j, j) and lb = lc = (0,) for
\* _tuple_delta_D_trans
MemoKeys(f) ==
    IF f = "small_d_weight" THEN { <<j>> : j \in 0..MaxLabel }
    ELSE { <<j, <<0 - j, j>>, <<0>>, <<0>> >> : j \in 0..MaxLabel }

Cached(f, k) == \E n \in DOMAIN memo[f] : memo[f][n].key = k

Position(f, k) == CHOOSE n \in DOMAIN memo[f] : memo[f][n].key = k

Without(q, n) == [m \in 1..(Len(q) - 1) |-> IF m < n THEN q[m] ELSE q[m + 1]]

\* a hit makes the entry the most recently used
Touch(f, k) == Append(Without(memo[f], Position(f, k)), memo[f][Position(f, k)])

\* after the wrapped function returned: nothing when the key was stored
\* meanwhile, else the oldest entry leaves a full cache and the new one enters
Insert(f, k, v) ==
    IF Cached(f, k) THEN memo[f]
    ELSE IF Len(memo[f]) >= maxsize
         THEN Append(Tail(memo[f]), [key |-> k, value |-> v])
         ELSE Append(memo[f], [key |-> k, value |-> v])

ThreadIdle == [pc |-> "idle", fn |-> "", key |-> << >>, value |-> Idle]

\* the wrapper up to the call of the wrapped function
Lookup(t, f, k) ==
    /\ thread[t].pc \in {"idle", "returned"}
    /\ IF Cached(f, k)
       THEN /\ memo' = [memo EXCEPT ![f] = Touch(f, k)]
            /\ thread' = [thread EXCEPT ![t] =
                             [pc |-> "returned", fn |-> f, key |-> k,
                              value |-> memo[f][Position(f, k)].value]]
       ELSE /\ thread' = [thread EXCEPT ![t] =
                             [pc |-> "miss", fn |-> f, key |-> k, value |-> Idle]]
            /\ UNCHANGED memo
    /\ UNCHANGED << angleVars, spinVars, callVars, evals, angle, requests >>

\* the wrapped function builds the table
Compute(t) ==
    /\ thread[t].pc = "miss"
    /\ evals' = Append(evals, [fn |-> thread[t].fn, key |-> thread[t].key])
    /\ thread' = [thread EXCEPT ![t].pc = "computed",
                                ![t].value = [table |-> << thread[t].fn, thread[t].key >>,
                                              run |-> Len(evals) + 1]]
    /\ UNCHANGED << angleVars, spinVars, callVars, memo, angle, requests >>

\* the wrapper after the call: store, return the computed result
Store(t) ==
    /\ thread[t].pc = "computed"
    /\ memo' = [memo EXCEPT ![thread[t].fn] =
                   Insert(thread[t].fn, thread[t].key, thread[t].value)]
    /\ thread' = [thread EXCEPT ![t].pc = "returned"]
    /\ UNCHANGED << angleVars, spinVars, callVars, evals, angle, requests >>

InitMemo ==
    /\ memo = [f \in MemoFunctions |-> << >>]
    /\ thread = [t \in 1..MaxThreads |-> ThreadIdle]
    /\ evals = << >>
    /\ angle = << >>
    /\ requests = << >>
    /\ CallIdle
    /\ SpinAtRest
    /\ AngleIdle

NextMemo ==
    \/ \E t \in DOMAIN thread, f \in MemoFunctions : \E k \in MemoKeys(f) : Lookup(t, f, k)
    \/ \E t \in DOMAIN thread : Compute(t)
    \/ \E t \in DOMAIN thread : Store(t)

SpecMemo == InitMemo /\ [][NextMemo]_vars

\* one caller, requests one after the other: for j = 0 or for the next label
\* not requested yet
InitSequential ==
    /\ memo = [f \in MemoFunctions |-> << >>]
    /\ thread = [t \in {1} |-> ThreadIdle]
    /\ evals = << >>
    /\ angle = << >>
    /\ requests = << >>
    /\ CallIdle
    /\ SpinAtRest
    /\ AngleIdle

NextLabel == Cardinality({ evals[n].key : n \in DOMAIN evals })

NextSequential ==
    \/ Lookup(1, "small_d_weight", <<0>>)
    \/ NextLabel < MaxDistinct /\ Lookup(1, "small_d_weight", << NextLabel >>)
    \/ Compute(1)
    \/ Store(1)

SpecSequential == InitSequential /\ [][NextSequential]_vars

----------------------------------------------------------------------------
(* dfun.py: the Wigner engine, for one event.  j is the encoded spin (twice *)
(* the spin).  A weight sign * sqrt(rad) / den is kept as its three         *)
(* integers.  sin(theta/2) and cos(theta/2) are kept as monomials           *)
(* coef * S^sin * C^cos in the two generic values S and C; at theta = 0 the *)
(* sine is the number 0 and the cosine the number 1.  An entry of the       *)
(* small-d matrix is the list of the terms of its sum over l, an entry of   *)
(* the D matrix is that list with the two phases exp(i * mult * angle).     *)

\* the encoded spins applied: 0 .. MaxJ
MaxJ == 3

Angles == {"zero", "generic"}

\* math.factorial
RECURSIVE factorial(_)
factorial(n) == IF n <= 0 THEN 1 ELSE n * factorial(n - 1)

\* f(x) = math.factorial(x // 2), the local function of small_d_weight
f_half(x) == factorial(x \div 2)

\* range(start, stop, 2)
range2(start, stop) == { k \in start..(stop - 1) : (k - start) % 2 = 0 }

Max(a, b) == IF a >= b THEN a ELSE b

Minimum(a, b) == IF a <= b THEN a ELSE b

\* (-1) ** e
sign_of(e) == IF e % 2 = 0 THEN 1 ELSE 0 - 1

ZeroWeight == [sign |-> 0, rad |-> 0, den |-> 1]

\* the value written at ret[l][(m+j)//2][(n+j)//2] by the loops over m, n, k
\* (lines 59-66), 0 where no k writes
weight_entry(j, l, m, n) ==
    LET ks == { k \in range2(Max(0, n - m), Minimum(j - m, j + n) + 1) :
                  (2 * k + (m - n)) \div 2 = l }
    IN IF ks = {} THEN ZeroWeight
       ELSE LET k == CHOOSE x \in ks : \A y \in ks : y <= x
            IN [sign |-> sign_of((k + m - n) \div 2),
                rad |-> f_half(j + m) * f_half(j - m) * f_half(j + n) * f_half(j - n),
                den |-> f_half(j - m - k) * f_half(j + n - k) * f_half(k + m - n)
                        * f_half(k)]

small_d_weight(j) ==
    [l \in 0..j |-> [a \in 0..j |-> [b \in 0..j |->
        weight_entry(j, l, 2 * a - j, 2 * b - j)]]]

\* tf.sin(theta / 2) and tf.cos(theta / 2)
sintheta(theta) ==
    IF theta = "zero" THEN [coef |-> 0, sin |-> 0, cos |-> 0]
    ELSE [coef |-> 1, sin |-> 1, cos |-> 0]

costheta(theta) ==
    IF theta = "zero" THEN [coef |-> 1, sin |-> 0, cos |-> 0]
    ELSE [coef |-> 1, sin |-> 0, cos |-> 1]

\* a power that takes 0 ** 0 for 0
powStrict(x, a) ==
    [coef |-> x.coef, sin |-> x.sin * a, cos |-> x.cos * a]

\* tf.pow(x, a) for an integer a >= 0: x ** 0 is 1, also for x = 0
pow(x, a) ==
    [coef |-> IF a = 0 THEN 1 ELSE x.coef, sin |-> x.sin * a, cos |-> x.cos * a]

\* s * c
times(x, y) ==
    IF x.coef = 0 \/ y.coef = 0 THEN [coef |-> 0, sin |-> 0, cos |-> 0]
    ELSE [coef |-> 1, sin |-> x.sin + y.sin, cos |-> x.cos + y.cos]

\* einsum("il,lab->iab", sc, w): entry (a, b) is the sum over l of
\* sc[l] * w[l][a][b], kept as its terms
small_d_matrix(theta, j) ==
    LET sc == [l \in 0..j |-> times(pow(sintheta(theta), l), pow(costheta(theta), j - l))]
        w == small_d_weight(j)
    IN [a \in 0..j |-> [b \in 0..j |-> [l \in 0..j |-> [sc |-> sc[l], w |-> w[l][a][b]]]]]

\* a phase whose multiplier is one too large
exp_iOffset(theta, mi) == [mult |-> mi + 1, angle |-> theta]

\* exp_i(theta, mi) = exp(i * mi * theta)
exp_i(theta, mi) == [mult |-> mi, angle |-> theta]

\* m = np.arange(-j, j+1, 2), by index
m_arange(j) == [a \in 0..j |-> 2 * a - j]

D_matrix_conj(alpha, beta, gamma, j) ==
    LET m == m_arange(j)
        d == small_d_matrix(beta, j)
    IN [a \in 0..j |-> [b \in 0..j |->
          [expi_alpha |-> exp_i(alpha, m[a]), d |-> d[a][b], expi_gamma |-> exp_i(gamma, m[b])]]]

InitDfun ==
    /\ call \in [op : {"none"}, j : 0..MaxJ, alpha : Angles, beta : Angles, gamma : Angles]
    /\ result = Idle
    /\ MemoIdle
    /\ SpinAtRest
    /\ AngleIdle

Call_small_d_weight ==
    /\ call.op = "none"
    /\ call' = [call EXCEPT !.op = "small_d_weight"]
    /\ result' = small_d_weight(call.j)
    /\ UNCHANGED << angleVars, spinVars, memoVars >>

Call_small_d_matrix ==
    /\ call.op = "none"
    /\ call' = [call EXCEPT !.op = "small_d_matrix"]
    /\ result' = small_d_matrix(call.beta, call.j)
    /\ UNCHANGED << angleVars, spinVars, memoVars >>

Call_D_matrix_conj ==
    /\ call.op = "none"
    /\ call' = [call EXCEPT !.op = "D_matrix_conj"]
    /\ result' = D_matrix_conj(call.alpha, call.beta, call.gamma, call.j)
    /\ UNCHANGED << angleVars, spinVars, memoVars >>

NextDfun ==
    \/ Call_small_d_weight
    \/ Call_small_d_matrix
    \/ Call_D_matrix_conj

SpecDfun == InitDfun /\ [][NextDfun]_vars

----------------------------------------------------------------------------
(* cal_angle.py and data.py: Getp, the breakup momentum of M_0 -> M_1 M_2,  *)
(* on a batch of events.  Masses are integers; the returned                 *)
(* tf.sqrt(q) / (2 * M_0) is kept as the pair of q and 2 * M_0.             *)

\* masses are drawn from 0 .. MaxMass
MaxMass == 2

\* the events of a batch
Events == {1, 2}

Masses == [Events -> 0..MaxMass]

\* q without the clamp
Getp_qRaw(p) == p

\* q = (p + tf.abs(p)) / 2
Getp_q(p) == (p + AbsInt(p)) \div 2

\* cal_angle.Getp: every operation is element-wise over the batch
Getp(M_0, M_1, M_2) ==
    [e \in Events |->
        LET M12S == M_1[e] + M_2[e]
            M12D == M_1[e] - M_2[e]
            p == (M_0[e] - M12S) * (M_0[e] + M12S) * (M_0[e] - M12D) * (M_0[e] + M12D)
            q == Getp_q(p)
        IN [sqrt_of |-> q, over |-> 2 * M_0[e]]]

\* data.Getp, the second copy
data_Getp(M_0, M_1, M_2) ==
    [e \in Events |->
        LET M12S == M_1[e] + M_2[e]
            M12D == M_1[e] - M_2[e]
            p == (M_0[e] - M12S) * (M_0[e] + M12S) * (M_0[e] - M12D) * (M_0[e] + M12D)
            q == (p + AbsInt(p)) \div 2
        IN [sqrt_of |-> q, over |-> 2 * M_0[e]]]

InitGetp ==
    /\ call \in [op : {"none"}, M_0 : Masses, M_1 : Masses, M_2 : Masses]
    /\ result = Idle
    /\ MemoIdle
    /\ SpinAtRest
    /\ AngleIdle

CallGetp ==
    /\ call.op = "none"
    /\ call' = [call EXCEPT !.op = "cal_angle.Getp"]
    /\ result' = [status |-> "ok", value |-> Getp(call.M_0, call.M_1, call.M_2)]
    /\ UNCHANGED << angleVars, spinVars, memoVars >>

Call_data_Getp ==
    /\ call.op = "none"
    /\ call' = [call EXCEPT !.op = "data.Getp"]
    /\ result' = [status |-> "ok", value |-> data_Getp(call.M_0, call.M_1, call.M_2)]
    /\ UNCHANGED << angleVars, spinVars, memoVars >>

NextGetp ==
    \/ CallGetp
    \/ Call_data_Getp

SpecGetp == InitGetp /\ [][NextGetp]_vars

----------------------------------------------------------------------------
(* cov_ten_ir.py: LorentzInvSC_m_zero, the massless branch, on a batch of   *)
(* events.  A four-momentum is (p0, p1, p2, p3) with integer components and *)
(* p0 = |p| > 0; x = p_Mu / p_Mu[..., 0:1] is kept as fractions over p0.    *)
(* An angle is 0, acos(num / sqrt(rad)) or 2*pi - acos(num / sqrt(rad)).    *)

\* components of the three-momentum are drawn from -MaxP .. MaxP
MaxP == 2

\* the spins s the representation is built for, in halves
RepSpins == {0, 1, 2}

\* light-like four-momenta with an integer energy
MasslessP ==
    { q \in (1..(2 * MaxP)) \X ((0 - MaxP)..MaxP) \X ((0 - MaxP)..MaxP) \X ((0 - MaxP)..MaxP) :
        q[1] * q[1] = q[2] * q[2] + q[3] * q[3] + q[4] * q[4] }

ZeroAngle == [form |-> "zero", num |-> 0, rad |-> 1]

\* tf.math.acos(x3), x3 = p3 / p0
acos_x3(q) == [form |-> "acos", num |-> q[4], rad |-> q[1] * q[1]]

\* x1 / tf.sqrt(1 - x3**2) = p1 / sqrt(p0^2 - p3^2)
acos_x1(q) == [form |-> "acos", num |-> q[2], rad |-> q[1] * q[1] - q[4] * q[4]]

\* the mask with its second condition lost
transverse_zero_x1(q) == q[2] = 0

\* (x1 == 0) & (x2 == 0)
transverse_zero(q) == q[2] = 0 /\ q[3] = 0

m_zero_Theta(q) == IF transverse_zero(q) THEN ZeroAngle ELSE acos_x3(q)

m_zero_Phi(q) ==
    IF transverse_zero(q) THEN ZeroAngle
    ELSE IF q[3] >= 0 THEN acos_x1(q)
         ELSE [acos_x1(q) EXCEPT !.form = "2pi-acos"]

\* the angles derived per event, and the (l, r) the rotation is built for
LorentzInvSC_m_zero(p_Mu, s) ==
    [angles |-> [e \in DOMAIN p_Mu |->
                    [CurlyTheta |-> ZeroAngle,
                     Theta |-> m_zero_Theta(p_Mu[e]),
                     Phi |-> m_zero_Phi(p_Mu[e])]],
     l |-> s,
     r |-> 0]

InitMassless ==
    /\ call \in [op : {"none"}, p_Mu : [Events -> MasslessP], s : RepSpins]
    /\ result = Idle
    /\ MemoIdle
    /\ SpinAtRest
    /\ AngleIdle

CallLorentzInvSC_m_zero ==
    /\ call.op = "none"
    /\ call' = [call EXCEPT !.op = "LorentzInvSC_m_zero"]
    /\ result' = LorentzInvSC_m_zero(call.p_Mu, call.s)
    /\ UNCHANGED << angleVars, spinVars, memoVars >>

NextMassless == CallLorentzInvSC_m_zero

SpecMassless == InitMassless /\ [][NextMassless]_vars

----------------------------------------------------------------------------
(* cal_angle.py: the base z axis of cal_angle_from_particle, lines 204-215, *)
(* on a batch of events.  The three-momentum of the top particle has        *)
(* integer components in units of 1e-6.                                     *)

\* the threshold 1e-5 of line 210, in units of 1e-6
norm_threshold == 10

\* three-momenta of the top particle: at rest, below the threshold, of norm
\* equal to the threshold, above it
TopMomenta == { <<0, 0, 0>>, <<0, 6, 0>>, <<6, 8, 0>>, <<8, 8, 6>> }

\* the groups the chains are taken from
BaseZGroups == { g \in DecayGroups : GroupOuts(g) = {"B", "C", "D"} }

\* Vector3.norm(p3) < 1e-5
norm_below(v) ==
    v[1] * v[1] + v[2] * v[2] + v[3] * v[3] < norm_threshold * norm_threshold

\* the selection with its branches swapped
np_whereSwapped(mask, a, b) == IF mask THEN b ELSE a

\* np.where(mask, a, b), for one event
np_where(mask, a, b) == IF mask THEN a ELSE b

\* lines 207-211: base_z per event
random_base_z(p3, random_z) ==
    [e \in DOMAIN p3 |->
        IF random_z THEN np_where(norm_below(p3[e]), <<0, 0, 1>>, p3[e])
        ELSE <<0, 0, 1>>]

InitBaseZ ==
    /\ call \in [op : {"cal_angle_from_particle"}, random_z : BOOLEAN,
                  p3 : [Events -> TopMomenta]]
    /\ result = Idle
    /\ decay_chain_struct \in BaseZGroups
    /\ pc = "base_z"
    /\ ci = 1
    /\ set_z = EmptyMap
    /\ decay_data = EmptyMap
    /\ p_in = EmptyMap
    /\ r_boost = TRUE
    /\ data_p = EmptyMap
    /\ set_decay = << >>
    /\ idx = 1
    /\ extra_decay = << >>
    /\ set_x = EmptyMap
    /\ r_matrix = EmptyMap
    /\ ret = EmptyMap
    /\ ref_x = EmptyMap
    /\ ref_matrix = EmptyMap
    /\ wlog = << >>
    /\ order = << >>
    /\ passes = << >>
    /\ MemoIdle
    /\ SpinAtRest

\* lines 204-211
GetBaseZ ==
    /\ pc = "base_z"
    /\ result' = random_base_z(call.p3, call.random_z)
    /\ pc' = "chains"
    /\ UNCHANGED << decay_chain_struct, p_in, r_boost, data_p, ci, set_decay, idx,
                    extra_decay, set_x, set_z, r_matrix, ret, decay_data, ref_x,
                    ref_matrix, wlog, order, passes, call, spinVars, memoVars >>

\* lines 213-215: cal_helicity_angle(data, i, base_z=base_z), which starts
\* its set_z from the axis it is handed (line 144)
HandBaseZ ==
    /\ pc = "chains"
    /\ ci <= Len(decay_chain_struct)
    /\ set_z' = (Top :> result)
    /\ decay_data' = Put(decay_data, ci, [base_z |-> result])
    /\ ci' = ci + 1
    /\ UNCHANGED << decay_chain_struct, p_in, r_boost, pc, data_p, set_decay, idx,
                    extra_decay, set_x, r_matrix, ret, ref_x, ref_matrix,
                    wlog, order, passes, callVars, spinVars, memoVars >>

EndChains ==
    /\ pc = "chains"
    /\ ci > Len(decay_chain_struct)
    /\ pc' = "done"
    /\ UNCHANGED << decay_chain_struct, p_in, r_boost, data_p, ci, set_decay, idx,
                    extra_decay, set_x, set_z, r_matrix, ret, decay_data, ref_x,
                    ref_matrix, wlog, order, passes, callVars, spinVars, memoVars >>

NextBaseZ ==
    \/ GetBaseZ
    \/ HandBaseZ
    \/ EndChains

SpecBaseZ == InitBaseZ /\ [][NextBaseZ]_vars

----------------------------------------------------------------------------
(* cov_ten_ir.py: DirectSum and the slot of the barred variants.  A matrix  *)
(* is its name and shape; a stacked matrix is the list of its blocks from   *)
(* top to bottom.                                                           *)

\* rows and columns of u1 and u2 are drawn from 1 .. MaxDim
MaxDim == 2

\* the slots n applied: 1 and 2, and 0 and 3 beside them
Slots == 0..3

Matrices(name) == [of : {<< name >>}, rows : 1..MaxDim, cols : 1..MaxDim]

\* np.zeros((rows, cols))
np_zeros(rows, cols) == [of |-> << "zeros" >>, rows |-> rows, cols |-> cols]

\* np.concatenate([a, b], axis=0)
concatenate(a, b) ==
    [status |-> "ok", blocks |-> << a, b >>, rows |-> a.rows + b.rows, cols |-> a.cols]

DirectSum(u1, u2, n) ==
    IF n = 1 THEN concatenate(u1, np_zeros(u2.rows, u1.cols))
    ELSE IF n = 2 THEN concatenate(np_zeros(u1.rows, u2.cols), u2)
    ELSE [status |-> "ValueError"]

\* u_m_sigma(l, r, s) as a matrix
u_matrix(l, r, s) ==
    [of |-> << "u_m_sigma", l, r, s >>,
     rows |-> u_m_sigma(l, r, s).shape[1],
     cols |-> u_m_sigma(l, r, s).shape[2]]

U_m_sigma(l, r, s, n) ==
    IF l = r
    THEN [status |-> "ok", blocks |-> << u_matrix(l, r, s) >>,
          rows |-> u_matrix(l, r, s).rows, cols |-> u_matrix(l, r, s).cols]
    ELSE DirectSum(u_matrix(l, r, s), u_matrix(r, l, s), n)

\* a slot passed on unchanged
bar_slotSame(n) == n

\* (2 * n) % 3
bar_slot(n) == (2 * n) % 3

\* the transpose .T of a result; an exception propagates
transposed(m) ==
    IF m.status = "ok" THEN [status |-> "ok", T |-> m] ELSE m

Ubar_sigma_m(l, r, s, n) == transposed(U_m_sigma(l, r, s, bar_slot(n)))

\* UUbar_sigma_m: the call of UU_m_sigma it makes (line 188), transposed
UUbar_sigma_m(l1, r1, l2, r2, l, r, s, n1, n2) ==
    [T |-> [op |-> "UU_m_sigma", spins |-> << l1, r1, l2, r2, l, r, s >>,
            n1 |-> bar_slot(n1), n2 |-> bar_slot(n2)]]

InitDirectSum ==
    /\ call \in [op : {"none"}, u1 : Matrices("u1"), u2 : Matrices("u2"),
                  l : RequestSpins, r : RequestSpins, s : RequestSpins,
                  n : Slots, n2 : Slots]
    /\ result = Idle
    /\ MemoIdle
    /\ SpinAtRest
    /\ AngleIdle

CallDirectSum ==
    /\ call.op = "none"
    /\ call' = [call EXCEPT !.op = "DirectSum"]
    /\ result' = DirectSum(call.u1, call.u2, call.n)
    /\ UNCHANGED << angleVars, spinVars, memoVars >>

CallU_m_sigma ==
    /\ call.op = "none"
    /\ call' = [call EXCEPT !.op = "U_m_sigma"]
    /\ result' = U_m_sigma(call.l, call.r, call.s, call.n)
    /\ UNCHANGED << angleVars, spinVars, memoVars >>

CallUbar_sigma_m ==
    /\ call.op = "none"
    /\ call' = [call EXCEPT !.op = "Ubar_sigma_m"]
    /\ result' = Ubar_sigma_m(call.l, call.r, call.s, call.n)
    /\ UNCHANGED << angleVars, spinVars, memoVars >>

CallUUbar_sigma_m ==
    /\ call.op = "none"
    /\ call' = [call EXCEPT !.op = "UUbar_sigma_m"]
    /\ result' = UUbar_sigma_m(call.l, call.r, call.l, call.r, call.l, call.r, call.s,
                               call.n, call.n2)
    /\ UNCHANGED << angleVars, spinVars, memoVars >>

NextDirectSum ==
    \/ CallDirectSum
    \/ CallU_m_sigma
    \/ CallUbar_sigma_m
    \/ CallUUbar_sigma_m

SpecDirectSum == InitDirectSum /\ [][NextDirectSum]_vars

----------------------------------------------------------------------------
(* cal_angle.py: get_relative_momentum, lines 280-296.  The masses of the   *)
(* particles of a chain are integers per event: the generic momentum sum of *)
(* the particle times a scale drawn per event.                              *)

\* data: {particle: {"m": mass per event}} for the particles of chain ch
MassData(ch, scale) ==
    LET dp == add_mass(infer_momentum(
                 struct_momentum([i \in ChainOuts(Range(ch)) |-> GenericP(i)]), ch))
    IN [i \in DOMAIN dp |-> [m |-> [e \in Events |-> scale[e] * dp[i].p]]]

\* the loop of lines 289-295 from decay k on; ret["decay"][decay] = {} reads
\* ret["decay"] first, which raises KeyError when ret has no such key
RECURSIVE RelativeLoop(_, _, _, _)
RelativeLoop(data, decay_chain, k, acc) ==
    IF k > Len(decay_chain) THEN [status |-> "ok", value |-> acc]
    ELSE LET decay == decay_chain[k]
             m0 == data[decay.core].m
             m1 == data[decay.outs[1]].m
             m2 == data[decay.outs[2]].m
             q == Getp(m0, m1, m2)
         IN IF "decay" \notin DOMAIN acc
            THEN [status |-> "KeyError", value |-> "decay"]
            ELSE RelativeLoop(data, decay_chain, k + 1,
                              [acc EXCEPT !["decay"] = Put(@, decay, [q |-> q])])

\* ret = {} (line 288), then the loop
get_relative_momentum(data, decay_chain) == RelativeLoop(data, decay_chain, 1, EmptyMap)

InitRelative ==
    /\ call \in [op : {"none"}, decay_chain : DecayChains, scale : [Events -> 1..MaxMass]]
    /\ result = Idle
    /\ MemoIdle
    /\ SpinAtRest
    /\ AngleIdle

Call_get_relative_momentum ==
    /\ call.op = "none"
    /\ call' = [call EXCEPT !.op = "get_relative_momentum"]
    /\ result' = get_relative_momentum(MassData(call.decay_chain, call.scale),
                                       call.decay_chain)
    /\ UNCHANGED << angleVars, spinVars, memoVars >>

NextRelative == Call_get_relative_momentum

SpecRelative == InitRelative /\ [][NextRelative]_vars

----------------------------------------------------------------------------
(* cal_angle.py: add_weight, lines 110-118.  A data record maps "p" to a    *)
(* batch with one value per event; weights are integers, 1 standing for 1.0. *)

MaxBatch == 3
MaxWeight == 3

\* batches of at most MaxBatch events
Batches == UNION {[1..n -> 1..MaxP] : n \in 0..MaxBatch}

\* data_shape(data): the number of events of the record (imported from
\* tf_pwa.data at line 56)
data_shape(data) == Len(data["p"])

\* [x] * n of Python lists
list_repeat(x, n) == [k \in 1..n |-> x]

\* lines 115-118: the weight argument is rebound to [1.0] * data_size
add_weight(data, weight) ==
    LET data_size == data_shape(data)
        weights == list_repeat(1, data_size)
    IN Put(data, "weight", weights)

InitWeight ==
    /\ call \in [op : {"none"}, data : {[p |-> b] : b \in Batches}, weight : 0..MaxWeight]
    /\ result = Idle
    /\ MemoIdle
    /\ SpinAtRest
    /\ AngleIdle

Call_add_weight ==
    /\ call.op = "none"
    /\ call' = [call EXCEPT !.op = "add_weight"]
    /\ result' = add_weight(call.data, call.weight)
    /\ UNCHANGED << angleVars, spinVars, memoVars >>

NextWeight == Call_add_weight

SpecWeight == InitWeight /\ [][NextWeight]_vars

----------------------------------------------------------------------------
(* dfun.py: get_D_matrix_for_angle, lines 113-122.  The angle record is a   *)
(* map whose keys are strings, written as tuples of their pieces; a tensor  *)
(* object is a value with the identity the evaluation that made it gave it. *)

MaxCalls == 3
MaxRequestJ == 2

Digit == << "0", "1", "2", "3", "4", "5", "6", "7", "8", "9" >>

\* str(n) of a non-negative integer, as its decimal digits
RECURSIVE str_int(_)
str_int(n) == IF n < 10 THEN << Digit[n + 1] >> ELSE Append(str_int(n \div 10), Digit[(n % 10) + 1])

\* "D_matrix_{}".format(j), line 117
D_matrix_name(j) == << "D_matrix_" >> \o str_int(j)

EulerKeys == { << "alpha" >>, << "beta" >>, << "gamma" >> }

\* the tensor a call of D_matrix_conj builds: a new object each time
NewTensor(ang, log, j) ==
    [id |-> Len(log) + 1,
     value |-> D_matrix_conj(ang[<< "alpha" >>], ang[<< "beta" >>], ang[<< "gamma" >>], j)]

\* the body without the test of line 119: every request computes and stores
get_D_matrix_for_angleAlways(ang, log, j, cached) ==
    LET name == D_matrix_name(j)
        made == NewTensor(ang, log, j)
    IN IF cached
       THEN [angle |-> Put(ang, name, made), evals |-> Append(log, j), ret |-> made]
       ELSE [angle |-> ang, evals |-> Append(log, j), ret |-> made]

\* lines 113-122; log is the list of D_matrix_conj evaluations made so far
get_D_matrix_for_angle(ang, log, j, cached) ==
    LET name == D_matrix_name(j)
        made == NewTensor(ang, log, j)
    IN IF cached
       THEN IF name \notin DOMAIN ang
            THEN [angle |-> Put(ang, name, made), evals |-> Append(log, j), ret |-> made]
            ELSE [angle |-> ang, evals |-> log, ret |-> ang[name]]
       ELSE [angle |-> ang, evals |-> Append(log, j), ret |-> made]

InitRecord ==
    /\ angle \in [EulerKeys -> Angles]
    /\ requests = << >>
    /\ evals = << >>
    /\ memo = << >>
    /\ thread = << >>
    /\ CallIdle
    /\ SpinAtRest
    /\ AngleIdle

Request_D_matrix(j, cached) ==
    /\ Len(requests) < MaxCalls
    /\ LET out == get_D_matrix_for_angle(angle, evals, j, cached)
       IN /\ angle' = out.angle
          /\ evals' = out.evals
          /\ result' = out.ret
    /\ requests' = Append(requests, [j |-> j, cached |-> cached])
    /\ call' = [op |-> "get_D_matrix_for_angle", j |-> j, cached |-> cached]
    /\ UNCHANGED << angleVars, spinVars, memo, thread >>

NextRecord == \E j \in 0..MaxRequestJ, cached \in BOOLEAN : Request_D_matrix(j, cached)

SpecRecord == InitRecord /\ [][NextRecord]_vars

----------------------------------------------------------------------------
(* cov_ten_ir.py: the shapes of UU_m_sigma, Pmm1m2, LorentzBoostSC and      *)
(* LorentzRotationSC.  A spin argument is a Python number: its value in     *)
(* quarters (q) and whether it is a float; a half-odd value is always one.  *)
(* A matrix is its status and shape.                                        *)

\* 0, 0.0, 0.5 and 1
PySpins == { [q |-> 0, float |-> FALSE], [q |-> 0, float |-> TRUE],
             [q |-> 2, float |-> TRUE], [q |-> 4, float |-> FALSE] }

\* the spins _slr and SCRep hand on: the results of a true division
FloatSpins == { x \in PySpins : x.float }

\* 0.0 alone
ZeroSpins == { x \in FloatSpins : x.q = 0 }

\* _dim(l, r), lines 29-32
_dim(l, r) == IF l = r THEN _size(l) * _size(l) ELSE 2 * _size(l) * _size(r)

\* 2 * l + 1 as Python computes it: a float for a float l
twice_plus_1(x) == [v |-> (x.q \div 2) + 1, float |-> x.float]

\* a * b of two Python numbers
py_mul(a, b) == [v |-> a.v * b.v, float |-> a.float \/ b.float]

\* Uabba(A, B), lines 121-130: np.zeros((A * B, A * B, A, B)) and range(A * B)
\* take integers only
Uabba(A, B) ==
    IF A.float \/ B.float
    THEN [status |-> "TypeError"]
    ELSE [status |-> "ok", rows |-> A.v * B.v, cols |-> A.v * B.v]

\* uu_m_sigma, lines 115-118: CCGlrs transposed to (0, 2, 1, 3, 4), reshaped to (-1, last)
uu_m_sigma(l1, r1, l2, r2, l, r, s) ==
    CHOOSE out \in { [status |-> "ok",
                      rows |-> shape[1] * shape[3] * shape[2] * shape[4],
                      cols |-> shape[5]] :
                     shape \in { CCGlrs(l1, l2, r1, r2, l, r, s).shape } } : TRUE

\* np.dot(a, b) of two matrices; the arguments are evaluated once, and an
\* exception raised for a or b propagates
np_dot(a, b) ==
    LET dot(x, y) ==
            IF x.status # "ok" THEN x
            ELSE IF y.status # "ok" THEN y
            ELSE IF x.cols # y.rows THEN [status |-> "ValueError"]
            ELSE [status |-> "ok", rows |-> x.rows, cols |-> y.cols]
    IN CHOOSE out \in { dot(x, y) : x \in {a}, y \in {b} } : TRUE

\* DirectSum of two results; the arguments are evaluated once, and an
\* exception raised for u1 or u2 propagates
DirectSumOf(u1, u2, n) ==
    LET sum(x, y) ==
            IF x.status # "ok" THEN x
            ELSE IF y.status # "ok" THEN y
            ELSE DirectSum(x, y, n)
    IN CHOOSE out \in { sum(x, y) : x \in {u1}, y \in {u2} } : TRUE

\* lines 155-184
UU_m_sigma(l1, r1, l2, r2, l, r, s, n1, n2) ==
    LET A == py_mul(twice_plus_1(l1), twice_plus_1(r1))
        B == py_mul([v |-> 2, float |-> FALSE], py_mul(twice_plus_1(l2), twice_plus_1(r2)))
    IN IF l1.q = r1.q /\ l2.q = r2.q
       THEN uu_m_sigma(l1.q, r1.q, l2.q, r2.q, l.q, r.q, s.q)
       ELSE IF l2.q = r2.q
       THEN DirectSumOf(uu_m_sigma(l1.q, r1.q, l2.q, r2.q, l.q, r.q, s.q),
                        uu_m_sigma(r1.q, l1.q, l2.q, r2.q, r.q, l.q, s.q), n1)
       ELSE IF l1.q = r1.q
       THEN np_dot(Uabba(A, B),
                   DirectSumOf(uu_m_sigma(l2.q, r2.q, l1.q, r1.q, l.q, r.q, s.q),
                               uu_m_sigma(r2.q, l2.q, l1.q, r1.q, r.q, l.q, s.q), n2))
       ELSE LET a == Uabba(A, B)
                b == DirectSumOf(uu_m_sigma(l2.q, r2.q, l1.q, r1.q, l.q, r.q, s.q),
                                 uu_m_sigma(r2.q, l2.q, l1.q, r1.q, l.q, r.q, s.q), n2)
                c == DirectSumOf(uu_m_sigma(l2.q, r2.q, r1.q, l1.q, r.q, l.q, s.q),
                                 uu_m_sigma(r2.q, l2.q, r1.q, l1.q, r.q, l.q, s.q), n2)
            IN DirectSumOf(np_dot(a, b), np_dot(a, c), n1)

\* lines 192-196: np.dot of U_m_sigma and the transpose of UU_m_sigma with the
\* barred slots (line 188), reshaped to (_dim(l, r), _dim(l1, r1), _dim(l2, r2))
Pmm1m2(l, r, n, l1, r1, l2, r2, l12, r12, n1, n2, s) ==
    LET reshaped(a, uu) ==
            IF a.status # "ok" THEN a
            ELSE IF uu.status # "ok" THEN uu
            ELSE IF a.cols # uu.cols THEN [status |-> "ValueError"]
            ELSE IF a.rows * uu.rows # _dim(l.q, r.q) * _dim(l1.q, r1.q) * _dim(l2.q, r2.q)
            THEN [status |-> "ValueError"]
            ELSE [status |-> "ok",
                  shape |-> << _dim(l.q, r.q), _dim(l1.q, r1.q), _dim(l2.q, r2.q) >>]
    IN CHOOSE out \in
          { reshaped(a, uu) :
              a \in { U_m_sigma(l.q, r.q, s.q, n1) },
              uu \in { UU_m_sigma(l1, r1, l2, r2, l12, r12, s, bar_slot(n1), bar_slot(n2)) } } :
          TRUE

\* DFunc(s, ...), lines 35-39: D_matrix_conj for j = _half2(s), by its shape
DFunc(s) ==
    LET m == m_arange(_half2(s))
    IN [status |-> "ok", rows |-> Cardinality(DOMAIN m), cols |-> Cardinality(DOMAIN m)]

\* LorentzRotation, lines 378-385, and LorentzBoost3, lines 388-396: the
\* outer product of DFunc(l) and DFunc(r) reshaped to a matrix
LorentzRotation(l, r) ==
    LET a == DFunc(l)
        b == IF l = r THEN a ELSE DFunc(r)
    IN [status |-> "ok", rows |-> a.rows * b.rows, cols |-> a.cols * b.cols]

LorentzBoost3(l, r) ==
    [status |-> "ok", rows |-> DFunc(l).rows * DFunc(r).rows,
     cols |-> DFunc(l).cols * DFunc(r).cols]

\* LorentzBoost, lines 399-403: einsum "...ab,...bc,...dc->...ad"
LorentzBoost(l, r) ==
    LET a == LorentzRotation(l, r)
        b == LorentzBoost3(l, r)
        c == LorentzRotation(l, r)
    IN IF a.cols # b.rows \/ b.cols # c.cols THEN [status |-> "ValueError"]
       ELSE [status |-> "ok", rows |-> a.rows, cols |-> c.rows]

\* the block-diagonal matrix of lines 412-417 and 425-430
block_diag(a, b) ==
    LET d1 == [rows |-> a.rows + b.rows, cols |-> a.cols]
        d2 == [rows |-> a.rows + b.rows, cols |-> b.cols]
    IN [status |-> "ok", rows |-> d1.rows, cols |-> d1.cols + d2.cols]

LorentzBoostSC(l, r) ==
    IF l = r THEN LorentzBoost(l, r)
    ELSE IF LorentzBoost(l, r).status # "ok" THEN LorentzBoost(l, r)
    ELSE IF LorentzBoost(r, l).status # "ok" THEN LorentzBoost(r, l)
    ELSE block_diag(LorentzBoost(l, r), LorentzBoost(r, l))

LorentzRotationSC(l, r) ==
    IF l = r THEN LorentzRotation(l, r)
    ELSE block_diag(LorentzRotation(l, r), LorentzRotation(r, l))

InitShape ==
    /\ call \in [op : {"none"}, l1 : PySpins, r1 : PySpins, l2 : PySpins, r2 : PySpins,
                  l : FloatSpins, r : ZeroSpins, s : FloatSpins, n1 : 1..2, n2 : 1..2]
    /\ result = Idle
    /\ MemoIdle
    /\ SpinAtRest
    /\ AngleIdle

Call_UU_m_sigma ==
    /\ call.op = "none"
    /\ call' = [call EXCEPT !.op = "UU_m_sigma"]
    /\ result' = UU_m_sigma(call.l1, call.r1, call.l2, call.r2, call.l, call.r, call.s,
                            call.n1, call.n2)
    /\ UNCHANGED << angleVars, spinVars, memoVars >>

\* Pmm1m2 for the representation (l1, r1) and the pair (l2, r2), (l1, r1)
Call_Pmm1m2 ==
    /\ call.op = "none"
    /\ call' = [call EXCEPT !.op = "Pmm1m2"]
    /\ result' = Pmm1m2(call.l1, call.r1, 1, call.l2, call.r2, call.l1, call.r1,
                        call.l, call.r, call.n1, call.n2, call.s)
    /\ UNCHANGED << angleVars, spinVars, memoVars >>

Call_U_m_sigma_shape ==
    /\ call.op = "none"
    /\ call' = [call EXCEPT !.op = "U_m_sigma"]
    /\ result' = U_m_sigma(call.l1.q, call.r1.q, call.s.q, call.n1)
    /\ UNCHANGED << angleVars, spinVars, memoVars >>

Call_LorentzBoostSC ==
    /\ call.op = "none"
    /\ call' = [call EXCEPT !.op = "LorentzBoostSC"]
    /\ result' = LorentzBoostSC(call.l1.q, call.r1.q)
    /\ UNCHANGED << angleVars, spinVars, memoVars >>

Call_LorentzRotationSC ==
    /\ call.op = "none"
    /\ call' = [call EXCEPT !.op = "LorentzRotationSC"]
    /\ result' = LorentzRotationSC(call.l1.q, call.r1.q)
    /\ UNCHANGED << angleVars, spinVars, memoVars >>

NextShape ==
    \/ Call_UU_m_sigma
    \/ Call_Pmm1m2
    \/ Call_U_m_sigma_shape
    \/ Call_LorentzBoostSC
    \/ Call_LorentzRotationSC

SpecShape == InitShape /\ [][NextShape]_vars

----------------------------------------------------------------------------
(* data.py: flatten_dict_data, lines 74-85.  A dict is [kids |-> its map], *)
(* anything else is [leaf |-> its value]; a key is a string, written as the *)
(* list of its pieces; a joining function is given by its separator.        *)

DictKeys == { << "a" >>, << "b" >> }

LeafValues == { [leaf |-> "x"], [leaf |-> "y"] }

\* the dicts with keys from K whose values are taken from S
DictsOver(K, S) == { [kids |-> m] : m \in UNION { [ks -> S] : ks \in SUBSET K } }

\* data nested at most three dicts deep
NestedData ==
    LeafValues \cup DictsOver(DictKeys,
        LeafValues \cup DictsOver(DictKeys, LeafValues \cup DictsOver(DictKeys, LeafValues)))

\* isinstance(data, dict), type(dic) == dict
is_dict(data) == "kids" \in DOMAIN data

\* "{}/{}".format, the default of fun, and a caller's "{}.{}".format
JoinFunctions == { "/", "." }

\* fun(i, j) for the function of separator sep
fun_format(sep, i, j) == i \o << sep >> \o j

\* the dict of a set of (key, value) pairs with distinct keys
dict_of(items) == [kids |-> [k \in { e[1] : e \in items } |-> (CHOOSE e \in items : e[1] = k)[2]]]

\* lines 74-85; the recursive call of line 78 passes data[i] alone, so the
\* levels below join with the default
RECURSIVE flatten_dict_data(_, _)
flatten_dict_data(data, fun) ==
    IF is_dict(data)
    THEN dict_of(UNION {
            { << IF is_dict(tmp) THEN fun_format(fun, i, j[1]) ELSE i, j[2] >> :
                j \in IF is_dict(tmp)
                      THEN { << k, tmp.kids[k] >> : k \in DOMAIN tmp.kids }
                      ELSE { << i, tmp >> } } :
            <<i, tmp>> \in { << i, flatten_dict_data(data.kids[i], "/") >> : i \in DOMAIN data.kids } })
    ELSE data

InitFlatten ==
    /\ call \in [op : {"none"}, data : NestedData, fun : JoinFunctions]
    /\ result = Idle
    /\ MemoIdle
    /\ SpinAtRest
    /\ AngleIdle

Call_flatten_dict_data ==
    /\ call.op = "none"
    /\ call' = [call EXCEPT !.op = "flatten_dict_data"]
    /\ result' = flatten_dict_data(call.data, call.fun)
    /\ UNCHANGED << angleVars, spinVars, memoVars >>

NextFlatten == Call_flatten_dict_data

SpecFlatten == InitFlatten /\ [][NextFlatten]_vars

----------------------------------------------------------------------------
(* cal_angle.py: get_keys and get_key_content, lines 386-412.  A string is  *)
(* the list of its characters; dicts and leaves are written as above, and a *)
(* leaf is a scalar.                                                        *)

\* the keys "", "a" and "b"
PathKeys == { << >>, << "a" >>, << "b" >> }

\* dicts nested at most two deep
PathDicts == DictsOver(PathKeys, LeafValues \cup DictsOver(PathKeys, LeafValues))

\* the lists of one or two keys a path is written from
KeyLists == { << k >> : k \in PathKeys } \cup (PathKeys \X PathKeys)

\* for i in dic: the keys in the order of iteration
RECURSIVE dict_iter(_)
dict_iter(ks) ==
    IF ks = {} THEN << >>
    ELSE LET i == CHOOSE k \in ks : TRUE IN << i >> \o dict_iter(ks \ {i})

\* lines 390-395, the inner get_keys: the paths appended to keys_list for
\* dic, and for the keys of dic still to come
RECURSIVE get_keys_walk(_, _)
RECURSIVE get_keys_items(_, _, _)
get_keys_walk(dic, key_path) ==
    IF is_dict(dic)
    THEN get_keys_items(dic, dict_iter(DOMAIN dic.kids), key_path)
    ELSE << key_path >>

get_keys_items(dic, todo, key_path) ==
    IF Len(todo) = 0 THEN << >>
    ELSE get_keys_walk(dic.kids[Head(todo)], key_path \o << "/" >> \o Head(todo))
         \o get_keys_items(dic, Tail(todo), key_path)

\* get_keys(dic, key_path=''), lines 386-397
get_keys(dic) == get_keys_walk(dic, << >>)

\* str.strip('/')
RECURSIVE lstrip(_)
lstrip(str) == IF Len(str) > 0 /\ Head(str) = "/" THEN lstrip(Tail(str)) ELSE str

RECURSIVE rstrip(_)
rstrip(str) ==
    IF Len(str) > 0 /\ str[Len(str)] = "/" THEN rstrip(SubSeq(str, 1, Len(str) - 1)) ELSE str

strip(str) == rstrip(lstrip(str))

\* str.split('/'): the pieces between the separators, [''] for ''
RECURSIVE str_split(_)
str_split(str) ==
    IF \E n \in DOMAIN str : str[n] = "/"
    THEN LET n == CHOOSE n \in DOMAIN str :
                      str[n] = "/" /\ \A k \in 1..(n - 1) : str[k] # "/"
         IN << SubSeq(str, 1, n - 1) >> \o str_split(SubSeq(str, n + 1, Len(str)))
    ELSE << str >>

\* lines 404-411, the inner get_content: a leaf cannot be iterated, and ret
\* is unbound when no key of dic matches
RECURSIVE get_content(_, _)
get_content(dic, keys) ==
    IF Len(keys) = 0 THEN [status |-> "ok", value |-> dic]
    ELSE IF ~is_dict(dic) THEN [status |-> "TypeError"]
    ELSE IF Head(keys) \in DOMAIN dic.kids
    THEN get_content(dic.kids[Head(keys)], Tail(keys))
    ELSE [status |-> "UnboundLocalError"]

\* lines 400-412
get_key_content(dic, key_path) == get_content(dic, str_split(strip(key_path)))

\* the path "/k1/k2" of a list of keys
RECURSIVE path_of(_)
path_of(keys) == IF Len(keys) = 0 THEN << >> ELSE << "/" >> \o Head(keys) \o path_of(Tail(keys))

InitPath ==
    /\ call \in [op : {"none"}, dic : PathDicts]
    /\ result = Idle
    /\ MemoIdle
    /\ SpinAtRest
    /\ AngleIdle

\* get_keys(dic), then get_key_content(dic, path) for each path returned
RoundTrip ==
    /\ call.op = "none"
    /\ call' = [call EXCEPT !.op = "get_keys"]
    /\ result' = [keys |-> get_keys(call.dic),
                  content |-> [n \in DOMAIN get_keys(call.dic) |->
                                 get_key_content(call.dic, get_keys(call.dic)[n])]]
    /\ UNCHANGED << angleVars, spinVars, memoVars >>

\* get_key_content(dic, path) for the path of a list of keys
Call_get_key_content(keys) ==
    /\ call.op = "none"
    /\ call' = [op |-> "get_key_content", dic |-> call.dic, keys |-> keys]
    /\ result' = get_key_content(call.dic, path_of(keys))
    /\ UNCHANGED << angleVars, spinVars, memoVars >>

NextPath ==
    \/ RoundTrip
    \/ \E keys \in KeyLists : Call_get_key_content(keys)

SpecPath == InitPath /\ [][NextPath]_vars

----------------------------------------------------------------------------
(* data.py: load_dat_file with split=None and the default order, lines      *)
(* 21-61.  A file is the list of its rows of four numbers, a row being the  *)
(* pair of its file and its position; particles are numbered.               *)

MaxFiles == 2
MaxRows == 4
MaxParticles == 3

\* the rows of file f when it holds r of them
FileRows(f, r) == [k \in 1..r |-> << f, k >>]

\* the lists of files and their numbers of rows
FileLists == UNION { [1..m -> 0..MaxRows] : m \in 1..MaxFiles }

\* np.loadtxt(fname): an array of shape (rows, 4), and of shape (4,) for a
\* file of one row; shape0 is data.shape[0]
np_loadtxt(rows) ==
    [shape0 |-> IF Len(rows) = 1 THEN 4 ELSE Len(rows), rows |-> rows]

\* data.reshape((-1, size, 4)).transpose((1, 0, 2)), lines 54-55: item b holds
\* rows b, b + size, ...; numpy raises ValueError when the shape does not fit
reshape_transpose(data, size) ==
    IF size = 0 \/ Len(data.rows) % size # 0
    THEN [status |-> "ValueError"]
    ELSE [status |-> "ok",
          items |-> [b \in 1..size |->
                       [a \in 1..(Len(data.rows) \div size) |-> data.rows[(a - 1) * size + b]]]]

\* lines 56-59 for the items of one file from item b on: ret[particles[idx]] = i
RECURSIVE store_items(_, _, _, _)
store_items(items, b, particles, acc) ==
    IF b > Len(items) THEN [status |-> "ok", value |-> acc]
    ELSE IF Len(acc) + 1 > Len(particles) THEN [status |-> "IndexError"]
    ELSE store_items(items, b + 1, particles,
                     Append(acc, [part |-> particles[Len(acc) + 1], events |-> items[b]]))

\* the loop of lines 53-59 from file k on; acc is ret, in the order of insertion
RECURSIVE load_loop(_, _, _, _, _)
load_loop(split, datas, k, particles, acc) ==
    IF k > Len(datas) THEN [status |-> "ok", value |-> acc]
    ELSE LET data_2 == reshape_transpose(datas[k], split[k])
             stored == store_items(data_2.items, 1, particles, acc)
         IN IF data_2.status # "ok" THEN data_2
            ELSE IF stored.status # "ok" THEN stored
            ELSE load_loop(split, datas, k + 1, particles, stored.value)

\* lines 21-61 with split=None, order=None
load_dat_file(fnames, particles) ==
    LET n == Len(particles)
        datas == [k \in DOMAIN fnames |-> np_loadtxt(fnames[k])]
        sizes == [k \in DOMAIN fnames |-> datas[k].shape0]
        n_total == SumOver(DOMAIN sizes, sizes)
        n_data == n_total \div n
    IN IF n_total % n # 0 THEN [status |-> "ValueError"]
       ELSE IF n_data = 0 THEN [status |-> "ZeroDivisionError"]
       ELSE load_loop([k \in DOMAIN sizes |-> sizes[k] \div n_data], datas, 1, particles, << >>)

InitLoad ==
    /\ call \in [op : {"none"}, sizes : FileLists, n : 1..MaxParticles]
    /\ result = Idle
    /\ MemoIdle
    /\ SpinAtRest
    /\ AngleIdle

Call_load_dat_file ==
    /\ call.op = "none"
    /\ call' = [call EXCEPT !.op = "load_dat_file"]
    /\ result' = load_dat_file([f \in DOMAIN call.sizes |-> FileRows(f, call.sizes[f])],
                               [i \in 1..call.n |-> i])
    /\ UNCHANGED << angleVars, spinVars, memoVars >>

NextLoad == Call_load_dat_file

SpecLoad == InitLoad /\ [][NextLoad]_vars

----------------------------------------------------------------------------
(* Claims *)

Min(S) == CHOOSE m \in S : \A n \in S : m <= n

\* the chains in which i is a direct daughter of the top
DirectChains(g, i) ==
    { c \in DOMAIN g : \E d \in Range(g[c]) : d.core = Top /\ i \in Range(d.outs) }

ReferenceChosen == pc \in {"align", "done"}

\* C1: once cal_angle_from_particle has chosen the references, every
\* final-state particle of the group has exactly one; it is the first chain
\* in iteration order that emits the particle from the group's top (with
\* that decay) when there is such a chain, and the first chain (with its
\* decay that emits the particle) otherwise.
C1_ReferenceChain ==
    ReferenceChosen =>
        /\ DOMAIN ref_x = GroupOuts(decay_chain_struct)
        /\ DOMAIN ref_matrix = GroupOuts(decay_chain_struct)
        /\ \A i \in GroupOuts(decay_chain_struct) :
              LET D == DirectChains(decay_chain_struct, i)
                  c == IF D # {} THEN Min(D) ELSE 1
              IN /\ ref_x[i].chain = c
                 /\ ref_matrix[i] = c
                 /\ ref_x[i].decay = Emitter(decay_chain_struct[c], i)
                 /\ (D # {} => ref_x[i].decay.core = Top)

\* C1 witness: one particle takes a later chain as reference because only
\* that chain emits it from the top, another falls back to the first chain
C1_Witness ==
    /\ pc = "done"
    /\ \E i \in DOMAIN ref_x :
          /\ DirectChains(decay_chain_struct, i) # {}
          /\ ref_x[i].chain = 2
    /\ \E i \in DOMAIN ref_x :
          /\ DirectChains(decay_chain_struct, i) = {}
          /\ ref_x[i].chain = 1

\* C2: after cal_angle_from_particle, the entry of a final-state particle i
\* in decay d of chain c holds "aligned_angle" exactly when c is not the
\* reference chain of i, and entries of other particles never hold one.
C2_AlignedAngle ==
    pc = "done" =>
        \A c \in DOMAIN decay_data :
            \A d \in Range(decay_chain_struct[c]) :
                \A i \in Range(d.outs) :
                    LET e == decay_data[c].ret[d].outs[i]
                    IN IF i \in GroupOuts(decay_chain_struct)
                       THEN (e.aligned_angle # << >>) <=> (c # ref_x[i].chain)
                       ELSE e.aligned_angle = << >>

\* C2 witness: a finished run where a particle whose reference is a later
\* chain is aligned in the first chain, and an inner node has an entry
C2_Witness ==
    /\ pc = "done"
    /\ \E i \in DOMAIN ref_x :
          /\ ref_x[i].chain = 2
          /\ \E d \in DOMAIN decay_data[1].ret :
                /\ i \in DOMAIN decay_data[1].ret[d].outs
                /\ decay_data[1].ret[d].outs[i].aligned_angle # << >>
    /\ \E d \in DOMAIN decay_data[1].ret :
          \E j \in DOMAIN decay_data[1].ret[d].outs :
              j \notin GroupOuts(decay_chain_struct)

\* C3: during one run of cal_helicity_angle no key ret[decay][particle] and
\* no key r_matrix[particle] is assigned twice.
C3_WrittenOnce ==
    \A a, b \in DOMAIN wlog : a # b => wlog[a] # wlog[b]

\* C4: in the result of cal_helicity_angle every entry ret[decay][j] holds
\* "ang", "x" and "z", for two-body and three-body decays.
C4_AngleRecord ==
    \A c \in DOMAIN decay_data :
        \A d \in Range(decay_chain_struct[c]) :
            \A j \in Range(d.outs) :
                LET e == decay_data[c].ret[d].outs[j]
                IN e.ang # << >> /\ e.x # << >> /\ e.z # << >>

\* C5: the final r_matrix[j] is Boost_z(rest-frame momentum of j) *
\* Rotation_y(beta_j) * Rotation_z(alpha_j) * r_matrix[core] with the angles
\* computed for j itself, the last factor left out exactly for the top.
C5_Accumulated ==
    \A c \in DOMAIN decay_data :
        \A d \in Range(decay_chain_struct[c]) :
            \A j \in Range(d.outs) :
                LET rm == decay_data[c].r_matrix
                IN /\ Head(rm[j]).Bp = rest_p(d, j)
                   /\ Head(rm[j]).ang = angle_zx_z_getx(d, j).ang
                   /\ Tail(rm[j]) = (IF d.core = Top THEN << >> ELSE rm[d.core])

\* the run of cal_helicity_angle for chain ci - 1 has returned
RunReturned ==
    \/ pc = "helicity_begin" /\ ci > 1
    \/ pc \in {"align", "done"}

C6_Safety ==
    /\ \A k \in DOMAIN order :
          \/ order[k].core = Top
          \/ \E m \in 1..(k - 1) : order[k].core \in Range(order[m].outs)
    /\ \A k \in DOMAIN order : \A m \in DOMAIN order : k # m => order[k] # order[m]
    /\ \A k \in DOMAIN passes : k > 1 => passes[k] < passes[k - 1]
    /\ RunReturned =>
          /\ Range(order) = Range(decay_chain_struct[ci - 1])
          /\ ChainOuts(Range(decay_chain_struct[ci - 1])) \subseteq DOMAIN set_x
          /\ ChainOuts(Range(decay_chain_struct[ci - 1])) \subseteq DOMAIN set_z

\* C6: for every tree chain, in any listing order, the frontier loop of
\* cal_helicity_angle terminates, processes every decay exactly once and
\* after the decay that emits its core, and leaves every leaf particle with
\* a resolved (z, x) frame.
C6_FrontierLoop == [] C6_Safety /\ <> RunReturned

\* C6 witness: a run over a chain listed leaves first has returned after
\* three passes
C6_Witness ==
    /\ RunReturned
    /\ Len(passes) = 3
    /\ Len(order) = 3
    /\ decay_chain_struct[ci - 1][1].core # Top

\* C7: once the momenta of all chains are inferred, the momentum of the core
\* of every decay of every chain is the sum of the momenta of its outgoing
\* particles, also for composite nodes that several chains share.
C7_MomentumConservation ==
    pc \in {"helicity_begin", "helicity_loop", "align", "done"} =>
        \A c \in DOMAIN decay_chain_struct :
            \A d \in Range(decay_chain_struct[c]) :
                data_p[d.core].p =
                    SumOver(Range(d.outs), [j \in Range(d.outs) |-> data_p[j].p])

MomentumMissing == ~ (GroupOuts(decay_chain_struct) \subseteq DOMAIN p_in)

C8_FailsFirst ==
    (MomentumMissing /\ pc # "start") =>
        /\ pc = "error"
        /\ data_p = EmptyMap
        /\ decay_data = EmptyMap
        /\ ret = EmptyMap
        /\ ref_x = EmptyMap

\* C8: with a momentum mapping that lacks a final-state particle,
\* cal_angle_from_momentum fails before any momentum is summed or any angle
\* is computed, returns nothing, and leaves the caller's mapping unchanged.
C8_MissingMomentum == [] C8_FailsFirst /\ [][p_in' = p_in]_vars

\* C8 witness: the call has failed on a mapping that lacks a particle
C8_Witness == pc = "error" /\ MomentumMissing /\ p_in # EmptyMap

SpinArgs ==
    IF spin_in.op = "CGlrs" THEN {spin_in.l, spin_in.r, spin_in.s} ELSE {spin_in.l}

\* C9: _half2, _size, _srange and CGlrs fail with InvalidSpinError when a
\* spin argument is no multiple of 1/2.
C9_InvalidSpinError ==
    (spin_in.op # "none" /\ \E q \in SpinArgs : ~ IsHalfInteger(q)) =>
        spin_out.status = "InvalidSpinError"

\* C10: CGlrs(l, r, s) with s outside |l - r| <= s <= l + r is an error and
\* returns no tensor.
C10_TriangleError ==
    ( /\ spin_in.op = "CGlrs"
      /\ \A q \in SpinArgs : IsHalfInteger(q)
      /\ \/ spin_in.s < AbsInt(spin_in.l - spin_in.r)
         \/ spin_in.s > spin_in.l + spin_in.r ) =>
        spin_out.status # "ok"

\* C11: in any sequence of CGlrs requests (direct, or through CCGlrs or
\* u_m_sigma) the symbolic evaluation for a key (l, r, s) is performed at most
\* once
C11_EvaluatedOnce ==
    \A a, b \in DOMAIN evals : evals[a] = evals[b] => a = b

\* C12: when several callers request the same key of a memoized table for the
\* first time concurrently, the table is computed at most once and every
\* requester receives the same stored value
C12_ComputedOnce ==
    /\ \A a, b \in DOMAIN evals :
          (evals[a].fn = evals[b].fn /\ evals[a].key = evals[b].key) => a = b
    /\ \A t, u \in DOMAIN thread :
          ( /\ thread[t].pc = "returned" /\ thread[u].pc = "returned"
            /\ thread[t].fn = thread[u].fn /\ thread[t].key = thread[u].key ) =>
              thread[t].value = thread[u].value

\* C13: once small_d_weight(j) has been computed it stays cached: whatever
\* keys are requested afterwards, no entry is evicted and j is not recomputed
C13_NeverEvicted ==
    /\ \A n \in DOMAIN evals :
          \/ Cached(evals[n].fn, evals[n].key)
          \/ n = Len(evals) /\ thread[1].pc = "computed"
    /\ \A a, b \in DOMAIN evals : evals[a].key = evals[b].key => a = b

\* what the terms of an entry of the small-d matrix add up to
IsZeroTerm(t) == t.sc.coef = 0 \/ t.w.sign = 0

IsUnitTerm(t) ==
    /\ t.sc = [coef |-> 1, sin |-> 0, cos |-> 0]
    /\ t.w.sign = 1
    /\ t.w.rad = t.w.den * t.w.den

SumIsZero(e) == \A l \in DOMAIN e : IsZeroTerm(e[l])

SumIsOne(e) ==
    \E l \in DOMAIN e : IsUnitTerm(e[l]) /\ \A k \in DOMAIN e \ {l} : IsZeroTerm(e[k])

PhaseIsOne(ph) == ph.mult = 0 \/ ph.angle = "zero"

\* C14: for j = 0, D_matrix_conj(alpha, beta, gamma, 0) is the 1x1 matrix whose
\* entry is 1, for all angles
C14_TrivialSpin ==
    (call.op = "D_matrix_conj" /\ call.j = 0) =>
        /\ DOMAIN result = {0}
        /\ DOMAIN result[0] = {0}
        /\ PhaseIsOne(result[0][0].expi_alpha)
        /\ SumIsOne(result[0][0].d)
        /\ PhaseIsOne(result[0][0].expi_gamma)

C14_Witness ==
    /\ call.op = "D_matrix_conj"
    /\ call.j = 0
    /\ call.alpha = "generic" /\ call.beta = "generic" /\ call.gamma = "generic"
    /\ SumIsOne(result[0][0].d)

C16_MagneticNumbers ==
    call.op = "D_matrix_conj" =>
        \A a, b \in 0..call.j :
            /\ 2 * result[a][b].expi_alpha.mult = 2 * a - call.j
            /\ result[a][b].expi_alpha.angle = call.alpha
            /\ result[a][b].d = small_d_matrix(call.beta, call.j)[a][b]
            /\ 2 * result[a][b].expi_gamma.mult = 2 * b - call.j
            /\ result[a][b].expi_gamma.angle = call.gamma

\* P = (M0-M1-M2)(M0+M1+M2)(M0-M1+M2)(M0+M1-M2) of one event
BreakupP(m0, m1, m2) == (m0 - m1 - m2) * (m0 + m1 + m2) * (m0 - m1 + m2) * (m0 + m1 - m2)

\* C17: Getp never raises on below-threshold input: it returns
\* sqrt(max(P, 0)) / (2*M0), exactly 0 for every event with P < 0, each event's
\* value depending on that event only; the copies in cal_angle and data agree
C17_GetpClamped ==
    call.op \in {"cal_angle.Getp", "data.Getp"} =>
        /\ result.status = "ok"
        /\ \A e \in Events :
              LET P == BreakupP(call.M_0[e], call.M_1[e], call.M_2[e])
              IN /\ result.value[e] = [sqrt_of |-> Max(P, 0), over |-> 2 * call.M_0[e]]
                 /\ P < 0 => (result.value[e].sqrt_of = 0 /\ result.value[e].over # 0)
        /\ Getp(call.M_0, call.M_1, call.M_2) = data_Getp(call.M_0, call.M_1, call.M_2)

\* one event below threshold next to one above it
C17_Witness ==
    /\ call.op = "cal_angle.Getp"
    /\ BreakupP(call.M_0[1], call.M_1[1], call.M_2[1]) < 0
    /\ BreakupP(call.M_0[2], call.M_1[2], call.M_2[2]) > 0
    /\ result.value[1].sqrt_of = 0
    /\ result.value[2].sqrt_of > 0

\* the range of an angle: acos(c) is in [0, pi], 0 at c = 1 and pi at c = -1
InZeroToPi(ang) ==
    \/ ang.form = "zero"
    \/ ang.form = "acos" /\ ang.num * ang.num <= ang.rad

InPiToTwoPiOpen(ang) == ang.form = "2pi-acos" /\ ang.num * ang.num < ang.rad

C19_BaseZ ==
    (pc \in {"chains", "done"} /\ call.random_z) =>
        /\ \A e \in Events :
              result[e] =
                IF call.p3[e][1] * call.p3[e][1] + call.p3[e][2] * call.p3[e][2]
                   + call.p3[e][3] * call.p3[e][3] < 100
                THEN <<0, 0, 1>> ELSE call.p3[e]
        /\ \A i \in DOMAIN decay_data : decay_data[i].base_z = result
        /\ pc = "done" => DOMAIN decay_data = DOMAIN decay_chain_struct

\* two chains served, one event below the threshold, one on it
C19_Witness ==
    /\ pc = "done"
    /\ call.random_z
    /\ Len(decay_chain_struct) = 2
    /\ call.p3[1] = <<0, 6, 0>> /\ result[1] = <<0, 0, 1>>
    /\ call.p3[2] = <<6, 8, 0>> /\ result[2] = <<6, 8, 0>>
    /\ decay_data[1].base_z = decay_data[2].base_z

\* C20: DirectSum(u1, u2, n) is u1 above a zero block of rows(u2) rows for
\* n = 1 and a zero block of rows(u1) rows above u2 for n = 2, with
\* rows(u1) + rows(u2) rows in both cases, and raises ValueError for any other
\* n; the barred variants pass the slot (2n) mod 3, which swaps 1 and 2
C20_DirectSum ==
    /\ call.op = "DirectSum" =>
          /\ call.n = 1 =>
                /\ result.status = "ok"
                /\ result.blocks[1] = call.u1
                /\ result.blocks[2].of = << "zeros" >> /\ result.blocks[2].rows = call.u2.rows
                /\ result.rows = call.u1.rows + call.u2.rows
          /\ call.n = 2 =>
                /\ result.status = "ok"
                /\ result.blocks[1].of = << "zeros" >> /\ result.blocks[1].rows = call.u1.rows
                /\ result.blocks[2] = call.u2
                /\ result.rows = call.u1.rows + call.u2.rows
          /\ call.n \notin {1, 2} => result.status = "ValueError"
    /\ (call.op = "Ubar_sigma_m" /\ call.n \in {1, 2}) =>
          /\ result.status = "ok"
          /\ result.T = U_m_sigma(call.l, call.r, call.s, 3 - call.n)
    /\ (call.op = "UUbar_sigma_m" /\ call.n \in {1, 2} /\ call.n2 \in {1, 2}) =>
          /\ result.T.n1 = 3 - call.n
          /\ result.T.n2 = 3 - call.n2

\* a barred variant of a representation with l # r, called for slot 1, is the
\* transpose of a zero block above u(r, l, s)
C20_Witness ==
    /\ call.op = "Ubar_sigma_m"
    /\ call.l # call.r
    /\ call.n = 1
    /\ result.status = "ok"
    /\ result.T.blocks[1].of = << "zeros" >>
    /\ result.T.blocks[2].of = << "u_m_sigma", call.r, call.l, call.s >>

\* C21: get_relative_momentum(data, decay_chain) returns a structure that
\* holds, for every decay of the chain, ["decay"][decay]["|q|"] equal to Getp
\* of the masses of the core and of the first two outgoing particles
C21_RelativeMomentum ==
    call.op = "get_relative_momentum" =>
        /\ result.status = "ok"
        /\ \A k \in DOMAIN call.decay_chain :
              LET decay == call.decay_chain[k]
                  data == MassData(call.decay_chain, call.scale)
              IN /\ "decay" \in DOMAIN result.value
                 /\ decay \in DOMAIN result.value["decay"]
                 /\ result.value["decay"][decay].q =
                       Getp(data[decay.core].m, data[decay.outs[1]].m, data[decay.outs[2]].m)

\* C22: add_weight(data, weight) stores under data["weight"] an array with
\* one entry per event, each entry equal to the weight argument of the caller
C22_AddWeight ==
    call.op = "add_weight" =>
        /\ "weight" \in DOMAIN result
        /\ Len(result["weight"]) = Len(call.data["p"])
        /\ \A e \in DOMAIN result["weight"] : result["weight"][e] = call.weight

\* the values of j requested so far with cached=True
CachedJs(reqs) == { reqs[n].j : n \in { n \in DOMAIN reqs : reqs[n].cached } }

\* C23: a request with cached=True stores the matrix under "D_matrix_<j>" the
\* first time and returns the stored object, without a new evaluation, every
\* later time; the record then holds exactly one D_matrix entry per distinct j
\* requested with cached=True and its alpha, beta, gamma entries never change;
\* a request with cached=False leaves the record unchanged
C23_DMatrixCache ==
    [][LET r == requests'[Len(requests')]
           name == D_matrix_name(r.j)
       IN /\ Len(requests') = Len(requests) + 1
          /\ \A k \in EulerKeys : k \in DOMAIN angle' /\ angle'[k] = angle[k]
          /\ r.cached =>
                /\ name \in DOMAIN angle'
                /\ result' = angle'[name]
                /\ name \in DOMAIN angle => angle' = angle /\ evals' = evals
                /\ name \notin DOMAIN angle =>
                      /\ Len(evals') = Len(evals) + 1
                      /\ \A k \in DOMAIN angle : angle'[k] = angle[k]
          /\ ~r.cached => angle' = angle
          /\ DOMAIN angle' \ EulerKeys = { D_matrix_name(j) : j \in CachedJs(requests') }
          /\ Cardinality(DOMAIN angle' \ EulerKeys) = Cardinality(CachedJs(requests'))
      ]_vars

\* two values of j were stored and the last request repeated one of them and
\* got the object stored by the earlier request, with no new evaluation
C23_Witness ==
    /\ Len(requests) = MaxCalls
    /\ requests[Len(requests)].cached
    /\ \E n \in 1..(Len(requests) - 1) :
          /\ requests[n].cached
          /\ requests[n].j = requests[Len(requests)].j
          /\ result.id = n
    /\ result = angle[D_matrix_name(requests[Len(requests)].j)]
    /\ Cardinality(CachedJs(requests)) = 2
    /\ Len(evals) = 2

\* C24: infer_momentum never overwrites a particle already in the data
\* mapping: over the chains of a group, taken one after another, a particle
\* keeps the momentum the first chain holding it wrote, a chain adds only its
\* own particles, and the momenta of the final-state particles stay the ones
\* the caller supplied
C24_NoOverwrite ==
    [][(pc = "infer" /\ ci' = ci + 1) =>
          LET ch == Range(decay_chain_struct[ci])
          IN /\ \A i \in DOMAIN data_p :
                   i \in DOMAIN data_p' /\ data_p'[i].p = data_p[i].p
             /\ DOMAIN data_p' = DOMAIN data_p \cup Cores(ch) \cup Emitted(ch)
             /\ \A i \in GroupOuts(decay_chain_struct) : data_p'[i].p = p_in[i]
      ]_vars

\* two chains were inferred; both hold a composite particle whose momentum
\* the second chain would have summed to another value
C24_Witness ==
    /\ pc = "infer"
    /\ ci = 3
    /\ \E i \in Cores(Range(decay_chain_struct[1])) \cap Cores(Range(decay_chain_struct[2])) :
          LET below == sorted_table(decay_chain_struct[2])[i]
          IN /\ data_p[i].p = SumOver(sorted_table(decay_chain_struct[1])[i],
                                      [j \in sorted_table(decay_chain_struct[1])[i] |-> p_in[j]])
             /\ data_p[i].p # SumOver(below, [j \in below |-> p_in[j]])

\* C25: for half-integer spins the row count of U_m_sigma(l, r, s, n) is
\* _dim(l, r), the row count of UU_m_sigma is _dim(l1, r1) * _dim(l2, r2) in
\* each of its four branches, the reshape of Pmm1m2 succeeds, and
\* LorentzBoostSC and LorentzRotationSC are square of size _dim(l, r)
C25_Dimensions ==
    /\ call.op = "U_m_sigma" =>
          result.status = "ok" /\ result.rows = _dim(call.l1.q, call.r1.q)
    /\ call.op = "UU_m_sigma" =>
          /\ result.status = "ok"
          /\ result.rows = _dim(call.l1.q, call.r1.q) * _dim(call.l2.q, call.r2.q)
    /\ call.op = "Pmm1m2" => result.status = "ok"
    /\ call.op \in {"LorentzBoostSC", "LorentzRotationSC"} =>
          /\ result.status = "ok"
          /\ result.rows = _dim(call.l1.q, call.r1.q)
          /\ result.cols = _dim(call.l1.q, call.r1.q)

\* the leaves of a nested dict, each with the list of keys leading to it
RECURSIVE LeafPaths(_)
LeafPaths(data) ==
    IF "kids" \in DOMAIN data
    THEN UNION { { << << i >> \o e[1], e[2] >> : e \in LeafPaths(data.kids[i]) } :
                 i \in DOMAIN data.kids }
    ELSE { << << >>, data >> }

\* the keys of a path joined by the separator at every level
RECURSIVE JoinedPath(_, _)
JoinedPath(path, sep) ==
    IF Len(path) = 1 THEN path[1]
    ELSE path[1] \o << sep >> \o JoinedPath(Tail(path), sep)

\* C26: flatten_dict_data(data, fun) returns a single-level dict with one
\* entry per leaf of the nested dict, under the keys of the path to the leaf
\* joined by fun at every level; a non-dict input is returned unchanged
C26_Flatten ==
    call.op = "flatten_dict_data" =>
        IF "kids" \in DOMAIN call.data
        THEN /\ "kids" \in DOMAIN result
             /\ DOMAIN result.kids =
                   { JoinedPath(e[1], call.fun) : e \in LeafPaths(call.data) }
             /\ \A e \in LeafPaths(call.data) :
                   result.kids[JoinedPath(e[1], call.fun)] = e[2]
        ELSE result = call.data

\* what the keys of a list lead to in a nested dict, if every one exists
RECURSIVE Reaches(_, _)
Reaches(dic, keys) ==
    IF Len(keys) = 0 THEN [found |-> TRUE, value |-> dic]
    ELSE IF "kids" \in DOMAIN dic /\ Head(keys) \in DOMAIN dic.kids
    THEN Reaches(dic.kids[Head(keys)], Tail(keys))
    ELSE [found |-> FALSE]

\* C27: for a nested dict whose keys have distinct string forms without "/",
\* get_keys returns exactly one path per non-dict leaf and get_key_content
\* returns that leaf for every returned path; a path naming a key that does
\* not exist ends in an error, never in a value
C27_RoundTrip ==
    /\ call.op = "get_keys" =>
          /\ Len(result.keys) = Cardinality(LeafPaths(call.dic))
          /\ Range(result.keys) = { path_of(e[1]) : e \in LeafPaths(call.dic) }
          /\ \A e \in LeafPaths(call.dic) : \A n \in DOMAIN result.keys :
                result.keys[n] = path_of(e[1]) =>
                    /\ result.content[n].status = "ok"
                    /\ result.content[n].value = e[2]
    /\ (call.op = "get_key_content" /\ ~Reaches(call.dic, call.keys).found) =>
          result.status # "ok"

\* the number of rows of all the files of a call
TotalRows == SumOver(DOMAIN call.sizes, call.sizes)

\* C28: load_dat_file with split=None: when the total number of rows is a
\* multiple of n = len(particles) the result has one entry per particle, in
\* the order of particles, each of n_total/n events, and for a single file
\* row k (from 0) is event k div n of particle k mod n; otherwise it raises
\* ValueError
C28_LoadDatFile ==
    call.op = "load_dat_file" =>
        IF TotalRows % call.n = 0
        THEN /\ result.status = "ok"
             /\ Len(result.value) = call.n
             /\ \A i \in DOMAIN result.value :
                   /\ result.value[i].part = i
                   /\ Len(result.value[i].events) = TotalRows \div call.n
             /\ Len(call.sizes) = 1 =>
                   \A k \in 0..(call.sizes[1] - 1) :
                       result.value[(k % call.n) + 1].events[(k \div call.n) + 1] = << 1, k + 1 >>
        ELSE result.status = "ValueError"

====
